---- MODULE Spec2Model ----
(***************************************************************************)
(* Order-fulfilment control plane of MedAssist: order creation with        *)
(* inventory reservation under Redis locks, cancellation, payment webhook  *)
(* and the order status machine.  Every request is a process whose steps   *)
(* are the awaits of its handler; the document store and the lock store    *)
(* are shared variables updated by one atomic command per step.            *)
(***************************************************************************)
EXTENDS Integers, Sequences, FiniteSets, TLC

\* ------------------------------------------------------------------ bounds
NumProcs == 2
MaxOrders == 2
MaxOps == 3
NumMessages == 2
MaxAttempts == 4
MaxLines == 2
MaxQty == 2
MaxCalls == 6

Procs == 1..NumProcs
OrderIds == 1..MaxOrders
DeliveryIds == 1..MaxOps

\* ------------------------------------------------------- program constants
CREATED == "created"
ACCEPTED_BY_PHARMACY == "accepted_by_pharmacy"
PREPARED == "prepared"
DRIVER_ASSIGNED == "driver_assigned"
IN_TRANSIT == "in_transit"
DELIVERED == "delivered"
CANCELLED == "cancelled"
FAILED == "failed"

ORDER_STATUS ==
  {CREATED, ACCEPTED_BY_PHARMACY, PREPARED, DRIVER_ASSIGNED, IN_TRANSIT,
   DELIVERED, CANCELLED, FAILED}

PENDING == "pending"
PAID == "paid"

PAYMENT_STATUS == {PENDING, PAID, "failed", "refunded"}

\* the list that follows the transition table, which has driver_assigned -> cancelled
cancellableStatusesWithDispatch ==
  {CREATED, ACCEPTED_BY_PHARMACY, PREPARED, DRIVER_ASSIGNED}

\* cancelOrder: statuses in which the customer may still cancel
cancellableStatuses == {CREATED, ACCEPTED_BY_PHARMACY, PREPARED}

\* ------------------------------------------------------------ the fixture
Users == {"u1", "u2"}
NoKey == "none"
\* the digits a driver may submit, and the digits generateOTP draws
OTPs == {"111111", "222222"}
GeneratedOTPs == {"111111"}
ActivePharmacies == {"ph1"}
WebhookStatuses == {PAID, "failed"}
Drivers == {"d1"}
\* the drivers who may answer the same broadcast
RivalDrivers == {"d1", "d2"}
Now == 0

\* the inventory collection's immutable attributes, one entry per row
RowAttr ==
  << [pharmacy_id |-> "ph1", medicine_id |-> "m1", batch_no |-> "b1", expiry_date |-> 1],
     [pharmacy_id |-> "ph1", medicine_id |-> "m2", batch_no |-> "b1", expiry_date |-> 2],
     [pharmacy_id |-> "ph1", medicine_id |-> "m1", batch_no |-> "b2", expiry_date |-> 2],
     [pharmacy_id |-> "ph1", medicine_id |-> "m1", batch_no |-> "b0", expiry_date |-> 0] >>

Rows == 1..Len(RowAttr)

\* the later batch and the expired batch of m1 start empty
InitialStock == <<2, 1, 0, 0>>

Item(ph, m, q) == [pharmacy_id |-> ph, medicine_id |-> m, qty |-> q]

\* POST /orders requests: the caller, the Idempotency-Key header, the body
CreateRequests ==
  { [userId |-> "u1", idempotencyKey |-> "k1",
     items |-> << Item("ph1", "m1", 1) >>],
    [userId |-> "u2", idempotencyKey |-> "k1",
     items |-> << Item("ph1", "m2", 1), Item("ph1", "m1", 2) >>],
    [userId |-> "u2", idempotencyKey |-> NoKey,
     items |-> << Item("ph1", "m1", 1), Item("ph1", "m2", 1) >>],
    [userId |-> "u1", idempotencyKey |-> NoKey,
     items |-> << Item("ph1", "m1", 1), Item("ph2", "m1", 1) >>] }

\* the POST /orders requests of the full lifecycle
LifecycleRequests ==
  { [userId |-> "u1", idempotencyKey |-> "k1",
     items |-> << Item("ph1", "m1", 1) >>],
    [userId |-> "u2", idempotencyKey |-> NoKey,
     items |-> << Item("ph1", "m1", 1), Item("ph1", "m2", 1) >>] }

VARIABLES
  inventory,   \* Inventory collection: row -> quantity_available, reserved_qty
  locks,       \* Redis keys inventory_lock:<pharmacy>_<medicine> that exist
  orders,      \* Order collection, the order id is the index
  deliveries,  \* Delivery collection, the delivery id is the index
  proc,        \* the request each worker is serving: position and locals
  opsLeft,     \* requests that may still arrive
  user,        \* auth service: the registered user's document
  otpRecord,   \* Redis key otp:<phone>
  liveSet,     \* Redis keys refresh_token:<jti> that exist
  nextJti,     \* the next identifier uuidv4 hands out
  now,         \* auth service: Date.now()
  session,     \* the auth request each worker is serving
  authLeft,    \* auth requests that may still arrive
  queue,       \* event bus: every message's envelope and delivery state
  driverCall,  \* driver gateway: each driver's accept or confirm call
  cart,        \* createOrder: the reduce over reservedItems that totals them
  rateKey,     \* Redis key rate_limit:<ip>:<endpoint>
  limiter,     \* the rate-limited request each worker is serving
  callsLeft,   \* rate-limited requests that may still arrive
  accounts,    \* auth service: the users an admin has created
  pharmacies,  \* Pharmacy collection: the owning user of each pharmacy
  adminCall,   \* the admin request each worker is serving
  bus,         \* event bus: whether a publish goes through
  reply        \* auth service: the login request and error body per worker

orderVars == <<inventory, locks, orders, deliveries, proc, opsLeft>>

identityVars == <<user, otpRecord, liveSet, nextJti, now, session, authLeft>>

\* what the order pipeline never touches
limiterVars == <<rateKey, limiter, callsLeft>>

adminVars == <<accounts, pharmacies, adminCall>>

\* what only createOrder's total, the rate limiter, the admin operations
\* and the bus outage touch
sideVars == <<cart, limiterVars, adminVars, bus, reply>>

outsideOrders == <<identityVars, queue, driverCall, sideVars>>

vars == <<orderVars, identityVars, queue, driverCall, sideVars>>

NoResult == [code |-> "none", order_id |-> 0, otp |-> "none"]

ZeroMoved == [r \in Rows |-> 0]

IdleProc ==
  [pc |-> "idle", op |-> "none", userId |-> "none", idempotencyKey |-> NoKey,
   items |-> <<>>, i |-> 0, reservations |-> <<>>, lockedInventory |-> <<>>,
   found |-> 0, error |-> "none", orderId |-> 0, payment_status |-> "none",
   docPayment |-> "none", delivery |-> 0, moved |-> ZeroMoved,
   result |-> NoResult]

\* a finished request keeps what it was and what it answered
Done(rec, res) ==
  [IdleProc EXCEPT !.pc = "done", !.op = rec.op, !.orderId = rec.orderId,
                   !.moved = rec.moved, !.result = res]

Fail(rec, code) == Done(rec, [NoResult EXCEPT !.code = code])

\* -------------------------------------------- auth service: state at rest
Passwords == {"securePass123", "wrongPass123"}

NoToken == [type |-> "none", jti |-> 0]

\* the key otp:<phone> does not exist
NoOtp == [otp |-> "none", created_at |-> 0, used |-> FALSE]

\* storeOTP: { otp, created_at: Date.now(), used: false }
StoreOTP(otp, t) == [otp |-> otp, created_at |-> t, used |-> FALSE]

IdleSession ==
  [pc |-> "idle", op |-> "none", token |-> NoToken, otp |-> "none",
   otpData |-> NoOtp, code |-> "none", issued |-> 0]

\* a finished auth request keeps what it presented and what it answered
Answer(rec, code, jti) ==
  [IdleSession EXCEPT !.pc = "done", !.op = rec.op, !.token = rec.token,
                      !.otp = rec.otp, !.otpData = rec.otpData,
                      !.code = code, !.issued = jti]

\* register has run: the user is unverified and the first OTP is stored
InitIdentity ==
  /\ user = [is_verified |-> FALSE, password |-> "securePass123"]
  /\ otpRecord = StoreOTP(CHOOSE x \in GeneratedOTPs : TRUE, 1)
  /\ liveSet = {}
  /\ nextJti = 1
  /\ now = 1
  /\ session = [p \in Procs |-> IdleSession]
  /\ authLeft = MaxOps

\* no request has reached the auth service
IdentityAtRest ==
  /\ user = [is_verified |-> FALSE, password |-> "securePass123"]
  /\ otpRecord = NoOtp
  /\ liveSet = {}
  /\ nextJti = 1
  /\ now = 0
  /\ session = [p \in Procs |-> IdleSession]
  /\ authLeft = 0

\* no total is being computed
NoCart == [items |-> <<>>, k |-> 0, total |-> 0]

\* the rate-limited endpoints, one key per (client ip, endpoint)
Endpoints == {"login", "otp", "register"}

Windows == 1..MaxCalls

\* the key rate_limit:<identifier> does not exist (TTL answers -2); window
\* numbers the key's lifetimes and admitted counts the requests let through
\* in each of them
NoRateKey ==
  [count |-> 0, ttl |-> -2, window |-> 0, admitted |-> [w \in Windows |-> 0]]

IdleLimiter ==
  [pc |-> "idle", endpoint |-> "none", count |-> 0, ttl |-> -2, window |-> 0,
   code |-> "none"]

IdleAdmin ==
  [pc |-> "idle", op |-> "none", phone |-> 0, driverCount |-> 0,
   user |-> 0, pharmacyOk |-> FALSE, code |-> "none"]

\* no error body
NoError == [message |-> "none", status |-> 0, code |-> "none"]

NoReply == [account |-> "none", password |-> "none", body |-> NoError]

\* nothing but the order pipeline, the auth sessions and the consumer runs
SideAtRest ==
  /\ cart = NoCart
  /\ rateKey = [e \in Endpoints |-> NoRateKey]
  /\ limiter = [p \in Procs |-> IdleLimiter]
  /\ callsLeft = 0
  /\ accounts = <<>>
  /\ pharmacies = {}
  /\ adminCall = [p \in Procs |-> IdleAdmin]
  /\ bus = "up"
  /\ reply = [p \in Procs |-> NoReply]

IdleCall ==
  [pc |-> "idle", op |-> "none", delivery |-> 0, otp |-> "none", code |-> "none"]

Init ==
  /\ inventory = [r \in Rows |->
                    [quantity_available |-> InitialStock[r], reserved_qty |-> 0]]
  /\ locks = {}
  /\ orders = <<>>
  /\ deliveries = <<>>
  /\ proc = [p \in Procs |-> IdleProc]
  /\ opsLeft = MaxOps
  /\ IdentityAtRest
  /\ queue = <<>>
  /\ driverCall = [drv \in RivalDrivers |-> IdleCall]
  /\ SideAtRest

\* ----------------------------------------------------------- the event bus
\* publishOrderCreated, publishOrderCancelled, publishOrderPaid and
\* publishInventoryUpdated reject while the bus cannot be reached
PublishRejects == bus = "down"

\* the catch clause around a publish throws the rejection again
RethrownAsIs(rejected) == rejected

\* the catch clause around a publish: console.error(...), nothing is thrown
Rethrown(rejected) == FALSE

\* an error leaves the try statement around a publish
PublishThrows == Rethrown(PublishRejects)

\* the handler after its last write: the publish, then return order
Published(rec, res) ==
  IF PublishThrows THEN Fail(rec, "INTERNAL_ERROR") ELSE Done(rec, res)

\* ------------------------------------------------------------- the stores
\* a lock id that also names the line's quantity
LockIdOfLine(item) == <<item.pharmacy_id, item.medicine_id, item.qty>>

\* lockId = `${item.pharmacy_id}_${item.medicine_id}`
LockId(item) == <<item.pharmacy_id, item.medicine_id>>

\* the look-up that never finds the earlier order
FindByKeyMisses(ords, key) == 0

\* Order.findOne({ idempotency_key }): the order's id, 0 when none
FindByKey(ords, key) ==
  IF \E o \in 1..Len(ords) : ords[o].idempotency_key = key
  THEN CHOOSE o \in 1..Len(ords) : ords[o].idempotency_key = key
  ELSE 0

\* the look-up without its sort: the store answers with the last viable row
FindInventoryUnsorted(inv, item) ==
  LET c == {r \in Rows :
              /\ RowAttr[r].pharmacy_id = item.pharmacy_id
              /\ RowAttr[r].medicine_id = item.medicine_id
              /\ inv[r].quantity_available >= item.qty
              /\ RowAttr[r].expiry_date > Now}
  IN IF c = {} THEN 0
     ELSE CHOOSE r \in c : \A t \in c : RowAttr[r].expiry_date >= RowAttr[t].expiry_date

\* Inventory.findOne({pharmacy, medicine, available >= qty, expiry > now})
\* .sort({ expiry_date: 1 }): the row's id, 0 when none
FindInventory(inv, item) ==
  LET c == {r \in Rows :
              /\ RowAttr[r].pharmacy_id = item.pharmacy_id
              /\ RowAttr[r].medicine_id = item.medicine_id
              /\ inv[r].quantity_available >= item.qty
              /\ RowAttr[r].expiry_date > Now}
  IN IF c = {} THEN 0
     ELSE CHOOSE r \in c : \A s \in c : RowAttr[r].expiry_date <= RowAttr[s].expiry_date

\* an update filter on _id alone
ReserveFilterOnIdOnly(inv, r, qty) == TRUE

\* the filter of the conditional update that reserves
ReserveFilter(inv, r, qty) == inv[r].quantity_available >= qty

\* the reservation that forgets to take the stock out of quantity_available
ReserveIncKeepsAvailable(row, qty) ==
  [quantity_available |-> row.quantity_available,
   reserved_qty |-> row.reserved_qty + qty]

\* $inc { quantity_available: -qty, reserved_qty: +qty }
ReserveInc(row, qty) ==
  [quantity_available |-> row.quantity_available - qty,
   reserved_qty |-> row.reserved_qty + qty]

\* the release that forgets to take the stock out of reserved_qty
ReleaseIncKeepsReserved(row, qty) ==
  [quantity_available |-> row.quantity_available + qty,
   reserved_qty |-> row.reserved_qty]

\* $inc { quantity_available: +qty, reserved_qty: -qty }
ReleaseInc(row, qty) ==
  [quantity_available |-> row.quantity_available + qty,
   reserved_qty |-> row.reserved_qty - qty]

\* the commit that takes the stock out of quantity_available a second time
ConfirmIncTakesAvailable(row, qty) ==
  [quantity_available |-> row.quantity_available - qty,
   reserved_qty |-> row.reserved_qty - qty]

\* $inc { reserved_qty: -qty }
ConfirmInc(row, qty) ==
  [quantity_available |-> row.quantity_available,
   reserved_qty |-> row.reserved_qty - qty]

\* a release filter on (pharmacy, medicine) alone
MatchBatchAnyBatch(r, ph, line) ==
  /\ RowAttr[r].pharmacy_id = ph
  /\ RowAttr[r].medicine_id = line.medicine_id

\* the rows a (pharmacy, medicine, batch) filter matches
MatchBatch(r, ph, line) ==
  /\ RowAttr[r].pharmacy_id = ph
  /\ RowAttr[r].medicine_id = line.medicine_id
  /\ RowAttr[r].batch_no = line.batch_no

\* the collection without the unique index
UniqueKeyIndexMissing(ords, key) == TRUE

\* the unique sparse index on orders.idempotency_key
UniqueKeyIndex(ords, key) ==
  key = NoKey \/ \A o \in 1..Len(ords) : ords[o].idempotency_key # key

\* a request goes to the first worker that is not serving one
Free(p) ==
  /\ proc[p].pc \in {"idle", "done"}
  /\ \A q \in DOMAIN proc : q < p => ~(proc[q].pc \in {"idle", "done"})

\* ------------------------------------------------------------ createOrder
PharmacyIds(its) == {its[k].pharmacy_id : k \in 1..Len(its)}

\* the finally block of reserveInventory is entered with the pending error
EnterFinally(rec, err) ==
  IF rec.lockedInventory = <<>>
  THEN IF err = "none" THEN [rec EXCEPT !.pc = "co_create"] ELSE Fail(rec, err)
  ELSE [rec EXCEPT !.pc = "ri_release", !.error = err]

\* createOrder up to its first reservation step: the idempotency look-up,
\* the single-pharmacy rule and the pharmacy look-up
CreateOrderEntry(u, k, its) ==
  LET rec == [IdleProc EXCEPT !.op = "createOrder", !.userId = u,
                              !.idempotencyKey = k, !.items = its, !.i = 1]
      existingOrder == FindByKey(orders, k)
  IN IF k # NoKey /\ existingOrder # 0
     THEN Done(rec, [code |-> "OK", order_id |-> existingOrder,
                     otp |-> orders[existingOrder].otp_for_delivery])
     ELSE IF Cardinality(PharmacyIds(its)) > 1
     THEN Fail(rec, "BAD_REQUEST")
     ELSE IF ~(its[1].pharmacy_id \in ActivePharmacies)
     THEN Fail(rec, "BAD_REQUEST")
     ELSE [rec EXCEPT !.pc = "ri_acquire"]

\* POST /orders arrives at a free worker
CreateOrder(p, u, k, its) ==
  /\ Free(p)
  /\ opsLeft > 0
  /\ Len(orders) + Cardinality({q \in Procs : proc[q].op = "createOrder"
                                              /\ proc[q].pc # "done"}) < MaxOrders
  /\ opsLeft' = opsLeft - 1
  /\ proc' = [proc EXCEPT ![p] = CreateOrderEntry(u, k, its)]
  /\ UNCHANGED <<inventory, locks, orders, deliveries>>
  /\ UNCHANGED outsideOrders

\* an acquireLock that waits until the key is free
AcquireLockWaits(p) ==
  /\ proc[p].pc = "ri_acquire"
  /\ LET rec == proc[p]
         lockId == LockId(rec.items[rec.i])
     IN /\ ~(lockId \in locks)
        /\ locks' = locks \cup {lockId}
        /\ proc' = [proc EXCEPT ![p] =
             [rec EXCEPT !.pc = "ri_find",
                         !.lockedInventory = Append(rec.lockedInventory, lockId)]]
  /\ UNCHANGED <<inventory, orders, deliveries, opsLeft>>
  /\ UNCHANGED outsideOrders

\* reserveInventory: acquireLock(lockId, ttl), SET key 1 EX ttl NX
AcquireLock(p) ==
  /\ proc[p].pc = "ri_acquire"
  /\ LET rec == proc[p]
         lockId == LockId(rec.items[rec.i])
     IN IF lockId \in locks
        THEN /\ proc' = [proc EXCEPT ![p] = EnterFinally(rec, "INVENTORY_LOCKED")]
             /\ UNCHANGED locks
        ELSE /\ locks' = locks \cup {lockId}
             /\ proc' = [proc EXCEPT ![p] =
                  [rec EXCEPT !.pc = "ri_find",
                              !.lockedInventory = Append(rec.lockedInventory, lockId)]]
  /\ UNCHANGED <<inventory, orders, deliveries, opsLeft>>
  /\ UNCHANGED outsideOrders

\* reserveInventory: Inventory.findOne(...).sort({ expiry_date: 1 })
FindAvailable(p) ==
  /\ proc[p].pc = "ri_find"
  /\ LET rec == proc[p]
         r == FindInventory(inventory, rec.items[rec.i])
     IN proc' = [proc EXCEPT ![p] =
          IF r = 0 THEN EnterFinally(rec, "INSUFFICIENT_STOCK")
          ELSE [rec EXCEPT !.pc = "ri_update", !.found = r]]
  /\ UNCHANGED <<inventory, locks, orders, deliveries, opsLeft>>
  /\ UNCHANGED outsideOrders

\* reserveInventory: the conditional findOneAndUpdate and reservations.push
ReserveUpdate(p) ==
  /\ proc[p].pc = "ri_update"
  /\ LET rec == proc[p]
         item == rec.items[rec.i]
         r == rec.found
     IN IF ReserveFilter(inventory, r, item.qty)
        THEN /\ inventory' = [inventory EXCEPT ![r] = ReserveInc(@, item.qty)]
             /\ LET rec2 == [rec EXCEPT
                      !.reservations = Append(@,
                          [medicine_id |-> item.medicine_id,
                           batch_no |-> RowAttr[r].batch_no, qty |-> item.qty]),
                      !.moved = [@ EXCEPT ![r] = @ + item.qty],
                      !.found = 0,
                      !.i = @ + 1]
                IN proc' = [proc EXCEPT ![p] =
                     IF rec2.i > Len(rec2.items) THEN EnterFinally(rec2, "none")
                     ELSE [rec2 EXCEPT !.pc = "ri_acquire"]]
        ELSE /\ proc' = [proc EXCEPT ![p] = EnterFinally(rec, "INSUFFICIENT_STOCK")]
             /\ UNCHANGED inventory
  /\ UNCHANGED <<locks, orders, deliveries, opsLeft>>
  /\ UNCHANGED outsideOrders

\* reserveInventory: finally { for (lockId of lockedInventory) releaseLock }
ReleaseLock(p) ==
  /\ proc[p].pc = "ri_release"
  /\ LET rec == proc[p]
         rest == Tail(rec.lockedInventory)
     IN /\ locks' = locks \ {Head(rec.lockedInventory)}
        /\ proc' = [proc EXCEPT ![p] =
             IF rest # <<>> THEN [rec EXCEPT !.lockedInventory = rest]
             ELSE IF rec.error = "none"
             THEN [rec EXCEPT !.pc = "co_create", !.lockedInventory = rest]
             ELSE Fail(rec, rec.error)]
  /\ UNCHANGED <<inventory, orders, deliveries, opsLeft>>
  /\ UNCHANGED outsideOrders

\* Order.create under the unique index; a duplicate key is rethrown
OrderCreate(p, otp) ==
  /\ proc[p].pc = "co_create"
  /\ LET rec == proc[p]
     IN IF UniqueKeyIndex(orders, rec.idempotencyKey)
        THEN /\ orders' = Append(orders,
                  [user_id |-> rec.userId,
                   pharmacy_id |-> rec.items[1].pharmacy_id,
                   items |-> rec.reservations,
                   status |-> CREATED,
                   payment_status |-> PENDING,
                   idempotency_key |-> rec.idempotencyKey,
                   otp_for_delivery |-> otp,
                   delivery_id |-> 0])
             /\ proc' = [proc EXCEPT ![p] =
                  Published([rec EXCEPT !.orderId = Len(orders) + 1],
                       [code |-> "OK", order_id |-> Len(orders) + 1, otp |-> otp])]
        ELSE /\ otp = CHOOSE x \in GeneratedOTPs : TRUE
             /\ proc' = [proc EXCEPT ![p] = Fail(rec, "DUPLICATE_KEY")]
             /\ UNCHANGED orders
  /\ UNCHANGED <<inventory, locks, deliveries, opsLeft>>
  /\ UNCHANGED outsideOrders

\* ------------------------------------------------------------ cancelOrder
\* a cancelOrder without the owner check
CancelOrderByAnyone(p, oid, u) ==
  /\ Free(p)
  /\ opsLeft > 0
  /\ opsLeft' = opsLeft - 1
  /\ LET rec == [IdleProc EXCEPT !.op = "cancelOrder", !.userId = u,
                                 !.orderId = oid, !.i = 1]
     IN proc' = [proc EXCEPT ![p] =
          IF oid > Len(orders) THEN Fail(rec, "ORDER_NOT_FOUND")
          ELSE IF ~(orders[oid].status \in cancellableStatuses)
          THEN Fail(rec, "ORDER_CANNOT_CANCEL")
          ELSE [rec EXCEPT !.pc = "ca_release"]]
  /\ UNCHANGED <<inventory, locks, orders, deliveries>>
  /\ UNCHANGED outsideOrders

\* cancelOrder up to its first release: Order.findById, the owner check and
\* the cancellableStatuses check
CancelOrder(p, oid, u) ==
  /\ Free(p)
  /\ opsLeft > 0
  /\ opsLeft' = opsLeft - 1
  /\ LET rec == [IdleProc EXCEPT !.op = "cancelOrder", !.userId = u,
                                 !.orderId = oid, !.i = 1]
     IN proc' = [proc EXCEPT ![p] =
          IF oid > Len(orders) THEN Fail(rec, "ORDER_NOT_FOUND")
          ELSE IF orders[oid].user_id # u THEN Fail(rec, "FORBIDDEN")
          ELSE IF ~(orders[oid].status \in cancellableStatuses)
          THEN Fail(rec, "ORDER_CANNOT_CANCEL")
          ELSE [rec EXCEPT !.pc = "ca_release"]]
  /\ UNCHANGED <<inventory, locks, orders, deliveries>>
  /\ UNCHANGED outsideOrders

\* releaseReservedInventory: one findOneAndUpdate per order line
ReleaseReserved(p) ==
  /\ proc[p].pc = "ca_release"
  /\ LET rec == proc[p]
         order == orders[rec.orderId]
         line == order.items[rec.i]
     IN /\ inventory' = [r \in Rows |->
             IF MatchBatch(r, order.pharmacy_id, line)
             THEN ReleaseInc(inventory[r], line.qty) ELSE inventory[r]]
        /\ proc' = [proc EXCEPT ![p] =
             IF rec.i = Len(order.items) THEN [rec EXCEPT !.pc = "ca_save"]
             ELSE [rec EXCEPT !.i = @ + 1]]
  /\ UNCHANGED <<locks, orders, deliveries, opsLeft>>
  /\ UNCHANGED outsideOrders

\* order.status = CANCELLED; order.save(): the modified path is written
\* whatever the stored status has become
CancelSave(p) ==
  /\ proc[p].pc = "ca_save"
  /\ LET rec == proc[p]
     IN /\ orders' = [orders EXCEPT ![rec.orderId].status = CANCELLED]
        /\ proc' = [proc EXCEPT ![p] =
             Published(rec, [code |-> "OK", order_id |-> rec.orderId,
                             otp |-> orders[rec.orderId].otp_for_delivery])]
  /\ UNCHANGED <<inventory, locks, deliveries, opsLeft>>
  /\ UNCHANGED outsideOrders

\* -------------------------------------------------- processPaymentWebhook
\* the webhook up to its first save: Order.findById
PaymentWebhook(p, oid, ps) ==
  /\ Free(p)
  /\ opsLeft > 0
  /\ opsLeft' = opsLeft - 1
  /\ LET rec == [IdleProc EXCEPT !.op = "processPaymentWebhook", !.orderId = oid,
                                 !.payment_status = ps]
     IN proc' = [proc EXCEPT ![p] =
          IF oid > Len(orders) THEN Fail(rec, "ORDER_NOT_FOUND")
          ELSE [rec EXCEPT !.pc = "wh_save",
                           !.docPayment = orders[oid].payment_status]]
  /\ UNCHANGED <<inventory, locks, orders, deliveries>>
  /\ UNCHANGED outsideOrders

\* a webhook that also accepts the order it marks as paid
WebhookSaveAccepts(p) ==
  /\ proc[p].pc = "wh_save"
  /\ LET rec == proc[p]
     IN /\ orders' = [orders EXCEPT
                        ![rec.orderId].payment_status = rec.payment_status,
                        ![rec.orderId].status =
                           IF rec.payment_status = PAID THEN ACCEPTED_BY_PHARMACY ELSE @]
        /\ proc' = [proc EXCEPT ![p] =
             IF rec.payment_status = PAID
             THEN [rec EXCEPT !.pc = "wh_delivery", !.docPayment = "none"]
             ELSE Done(rec, [code |-> "OK", order_id |-> rec.orderId, otp |-> "none"])]
  /\ UNCHANGED <<inventory, locks, deliveries, opsLeft>>
  /\ UNCHANGED outsideOrders

\* order.payment_status = payment_status; order.save(): the path is written
\* when the assignment changed the loaded document
WebhookSave(p) ==
  /\ proc[p].pc = "wh_save"
  /\ LET rec == proc[p]
     IN /\ orders' = IF rec.payment_status # rec.docPayment
                     THEN [orders EXCEPT ![rec.orderId].payment_status = rec.payment_status]
                     ELSE orders
        /\ proc' = [proc EXCEPT ![p] =
             IF rec.payment_status = PAID
             THEN [rec EXCEPT !.pc = "wh_delivery", !.docPayment = "none"]
             ELSE Done(rec, [code |-> "OK", order_id |-> rec.orderId, otp |-> "none"])]
  /\ UNCHANGED <<inventory, locks, deliveries, opsLeft>>
  /\ UNCHANGED outsideOrders

\* Delivery.create({ order_id, status: 'assigned' })
DeliveryCreate(p) ==
  /\ proc[p].pc = "wh_delivery"
  /\ LET rec == proc[p]
     IN /\ deliveries' = Append(deliveries,
             [order_id |-> rec.orderId, status |-> "assigned", driver_id |-> "none"])
        /\ proc' = [proc EXCEPT ![p] =
             [rec EXCEPT !.pc = "wh_link", !.delivery = Len(deliveries) + 1]]
  /\ UNCHANGED <<inventory, locks, orders, opsLeft>>
  /\ UNCHANGED outsideOrders

\* order.delivery_id = delivery._id; order.save()
WebhookLink(p) ==
  /\ proc[p].pc = "wh_link"
  /\ LET rec == proc[p]
     IN /\ orders' = [orders EXCEPT ![rec.orderId].delivery_id = rec.delivery]
        /\ proc' = [proc EXCEPT ![p] =
             Published(rec,[code |-> "OK", order_id |-> rec.orderId, otp |-> "none"])]
  /\ UNCHANGED <<inventory, locks, deliveries, opsLeft>>
  /\ UNCHANGED outsideOrders

\* ------------------------------------- pharmacist and driver gateways
\* confirmReservedInventory: one findOneAndUpdate per order line
RECURSIVE ConfirmReserved(_, _, _)
ConfirmReserved(inv, ph, lines) ==
  IF lines = <<>> THEN inv
  ELSE LET updated == [r \in Rows |->
                         IF MatchBatch(r, ph, Head(lines))
                         THEN ConfirmInc(inv[r], Head(lines).qty) ELSE inv[r]]
       IN IF PublishThrows THEN updated
          ELSE ConfirmReserved(updated, ph, Tail(lines))

\* releaseReservedInventory as one call
RECURSIVE ReleaseAll(_, _, _)
ReleaseAll(inv, ph, lines) ==
  IF lines = <<>> THEN inv
  ELSE ReleaseAll(
         [r \in Rows |-> IF MatchBatch(r, ph, Head(lines))
                         THEN ReleaseInc(inv[r], Head(lines).qty) ELSE inv[r]],
         ph, Tail(lines))

\* accept: created -> accepted_by_pharmacy
PharmacistAccept(oid) ==
  /\ oid <= Len(orders)
  /\ orders[oid].status = CREATED
  /\ orders' = [orders EXCEPT ![oid].status = ACCEPTED_BY_PHARMACY]
  /\ UNCHANGED <<inventory, locks, deliveries, proc, opsLeft>>
  /\ UNCHANGED outsideOrders

\* decline: created -> cancelled, the reservation is released
PharmacistDecline(oid) ==
  /\ oid <= Len(orders)
  /\ orders[oid].status = CREATED
  /\ orders' = [orders EXCEPT ![oid].status = CANCELLED]
  /\ inventory' = ReleaseAll(inventory, orders[oid].pharmacy_id, orders[oid].items)
  /\ UNCHANGED <<locks, deliveries, proc, opsLeft>>
  /\ UNCHANGED outsideOrders

\* prepared: accepted_by_pharmacy -> prepared
PharmacistPrepared(oid) ==
  /\ oid <= Len(orders)
  /\ orders[oid].status = ACCEPTED_BY_PHARMACY
  /\ orders' = [orders EXCEPT ![oid].status = PREPARED]
  /\ UNCHANGED <<inventory, locks, deliveries, proc, opsLeft>>
  /\ UNCHANGED outsideOrders

\* the bind that only looks at the delivery's status
BindFilterIgnoresDriver(delivery) == delivery.status = "assigned"

\* the filter of the conditional write that binds: driver id unset and
\* status = assigned
BindFilter(delivery) ==
  delivery.driver_id = "none" /\ delivery.status = "assigned"

\* a finished call keeps what it asked for and what it was answered
AnswerCall(op, d, otp, code) ==
  [pc |-> "done", op |-> op, delivery |-> d, otp |-> otp, code |-> code]

\* accept up to its write: the delivery is assigned and its order prepared
DriverAccept(d, drv) ==
  /\ driverCall[drv].pc # "bind"
  /\ d <= Len(deliveries)
  /\ deliveries[d].status = "assigned"
  /\ orders[deliveries[d].order_id].status = PREPARED
  /\ driverCall' = [driverCall EXCEPT ![drv] =
       [IdleCall EXCEPT !.pc = "bind", !.op = "accept", !.delivery = d]]
  /\ UNCHANGED <<orderVars, identityVars, queue, sideVars>>

\* accept: the conditional write binds the driver and the order goes
\* prepared -> driver_assigned; a write that matches nothing is a conflict
DriverBind(drv) ==
  /\ driverCall[drv].pc = "bind"
  /\ LET d == driverCall[drv].delivery
         oid == deliveries[d].order_id
     IN IF BindFilter(deliveries[d])
        THEN /\ deliveries' = [deliveries EXCEPT ![d].driver_id = drv]
             /\ IF orders[oid].status = PREPARED
                THEN /\ orders' = [orders EXCEPT ![oid].status = DRIVER_ASSIGNED]
                     /\ driverCall' = [driverCall EXCEPT ![drv] = AnswerCall("accept", d, "none", "OK")]
                ELSE /\ orders' = orders
                     /\ driverCall' = [driverCall EXCEPT ![drv] =
                          AnswerCall("accept", d, "none", "INVALID_TRANSITION")]
        ELSE /\ driverCall' = [driverCall EXCEPT ![drv] =
                  AnswerCall("accept", d, "none", "DRIVER_NOT_AVAILABLE")]
             /\ UNCHANGED <<orders, deliveries>>
  /\ UNCHANGED <<inventory, locks, proc, opsLeft>>
  /\ UNCHANGED <<identityVars, queue, sideVars>>

\* deliveryStatusSchema: the enum of the status property
deliveryStatusSchema == {"picked_up", "in_transit", "delivered", "failed"}

\* validate('deliveryStatus', { status })
ValidDeliveryStatus(s) == s \in deliveryStatusSchema

\* status update: picked_up | in_transit | delivered | failed
DriverStatus(d, s) ==
  /\ ValidDeliveryStatus(s)
  /\ d <= Len(deliveries)
  /\ deliveries[d].driver_id # "none"
  /\ LET oid == deliveries[d].order_id
     IN \/ /\ s \in {"picked_up", "in_transit"}
           /\ orders[oid].status = DRIVER_ASSIGNED
           /\ deliveries[d].status = "assigned"
           /\ orders' = [orders EXCEPT ![oid].status = IN_TRANSIT]
        \/ /\ s = "delivered"
           /\ orders[oid].status = IN_TRANSIT
           /\ deliveries[d].status \in {"picked_up", "in_transit"}
           /\ orders' = [orders EXCEPT ![oid].status = DELIVERED]
        \/ /\ s = "failed"
           /\ orders[oid].status = IN_TRANSIT
           /\ deliveries[d].status \in {"picked_up", "in_transit"}
           /\ orders' = [orders EXCEPT ![oid].status = FAILED]
  /\ deliveries' = [deliveries EXCEPT ![d].status = s]
  /\ UNCHANGED <<inventory, locks, proc, opsLeft>>
  /\ UNCHANGED outsideOrders

\* the comparison that lets any digits through
OtpMatchesAnything(order, otp) == TRUE

\* the supplied digits match the order's delivery OTP exactly
OtpMatches(order, otp) == otp = order.otp_for_delivery

\* confirm-delivery by the bound driver: with the order's digits
\* in_transit -> delivered and the reservation is committed; with any other
\* digits DELIVERY_OTP_INVALID and nothing is written
ConfirmDelivery(d, otp) ==
  /\ d <= Len(deliveries)
  /\ deliveries[d].driver_id # "none"
  /\ driverCall[deliveries[d].driver_id].pc # "bind"
  /\ deliveries[d].status \in {"picked_up", "in_transit"}
  /\ LET oid == deliveries[d].order_id
         drv == deliveries[d].driver_id
     IN /\ orders[oid].status = IN_TRANSIT
        /\ IF OtpMatches(orders[oid], otp)
           THEN /\ orders' = [orders EXCEPT ![oid].status = DELIVERED]
                /\ inventory' = ConfirmReserved(inventory, orders[oid].pharmacy_id,
                                                orders[oid].items)
                /\ deliveries' = [deliveries EXCEPT ![d].status = "delivered"]
                /\ driverCall' = [driverCall EXCEPT ![drv] =
                     AnswerCall("confirm", d, otp,
                                IF PublishThrows THEN "INTERNAL_ERROR" ELSE "OK")]
           ELSE /\ driverCall' = [driverCall EXCEPT ![drv] =
                     AnswerCall("confirm", d, otp, "DELIVERY_OTP_INVALID")]
                /\ UNCHANGED <<inventory, orders, deliveries>>
  /\ UNCHANGED <<locks, proc, opsLeft>>
  /\ UNCHANGED <<identityVars, queue, sideVars>>

Next ==
  \/ \E p \in Procs, r \in LifecycleRequests :
        CreateOrder(p, r.userId, r.idempotencyKey, r.items)
  \/ \E p \in Procs : AcquireLock(p)
  \/ \E p \in Procs : FindAvailable(p)
  \/ \E p \in Procs : ReserveUpdate(p)
  \/ \E p \in Procs : ReleaseLock(p)
  \/ \E p \in Procs, otp \in GeneratedOTPs : OrderCreate(p, otp)
  \/ \E p \in Procs, oid \in OrderIds, u \in Users : CancelOrder(p, oid, u)
  \/ \E p \in Procs : ReleaseReserved(p)
  \/ \E p \in Procs : CancelSave(p)
  \/ \E p \in Procs, oid \in OrderIds, ps \in WebhookStatuses : PaymentWebhook(p, oid, ps)
  \/ \E p \in Procs : WebhookSave(p)
  \/ \E p \in Procs : DeliveryCreate(p)
  \/ \E p \in Procs : WebhookLink(p)
  \/ \E oid \in OrderIds : PharmacistAccept(oid)
  \/ \E oid \in OrderIds : PharmacistDecline(oid)
  \/ \E oid \in OrderIds : PharmacistPrepared(oid)
  \/ \E d \in DeliveryIds, drv \in Drivers : DriverAccept(d, drv)
  \/ \E drv \in Drivers : DriverBind(drv)
  \/ \E d \in DeliveryIds, s \in {"picked_up", "in_transit", "failed"} : DriverStatus(d, s)
  \/ \E d \in DeliveryIds, otp \in OTPs : ConfirmDelivery(d, otp)

Spec == Init /\ [][Next]_vars

NextOrderService ==
  \/ \E p \in Procs, r \in CreateRequests :
        CreateOrder(p, r.userId, r.idempotencyKey, r.items)
  \/ \E p \in Procs : AcquireLock(p)
  \/ \E p \in Procs : FindAvailable(p)
  \/ \E p \in Procs : ReserveUpdate(p)
  \/ \E p \in Procs : ReleaseLock(p)
  \/ \E p \in Procs, otp \in GeneratedOTPs : OrderCreate(p, otp)
  \/ \E p \in Procs, oid \in OrderIds, u \in Users : CancelOrder(p, oid, u)
  \/ \E p \in Procs : ReleaseReserved(p)
  \/ \E p \in Procs : CancelSave(p)
  \/ \E p \in Procs, oid \in OrderIds, ps \in WebhookStatuses : PaymentWebhook(p, oid, ps)
  \/ \E p \in Procs : WebhookSave(p)
  \/ \E p \in Procs : DeliveryCreate(p)
  \/ \E p \in Procs : WebhookLink(p)

\* the order service alone: no pharmacist, no driver
SpecOrderService == Init /\ [][NextOrderService]_vars

\* ------------------------------------------- the oversell scenario (e2e)
OversellStock == 3
OversellRequests == 5

OversellProcs == 1..OversellRequests

InitOversell ==
  /\ inventory = [r \in Rows |->
                    [quantity_available |-> IF r = 1 THEN OversellStock ELSE InitialStock[r],
                     reserved_qty |-> 0]]
  /\ locks = {}
  /\ orders = <<>>
  /\ deliveries = <<>>
  /\ proc = [p \in OversellProcs |-> IdleProc]
  /\ opsLeft = 0
  /\ IdentityAtRest
  /\ queue = <<>>
  /\ driverCall = [drv \in RivalDrivers |-> IdleCall]
  /\ SideAtRest

\* one of the five POST /orders, each for one unit of the same medicine
OversellCreateOrder(p) ==
  /\ proc[p].pc = "idle"
  /\ proc' = [proc EXCEPT ![p] =
       CreateOrderEntry("u1", NoKey, << Item("ph1", "m1", 1) >>)]
  /\ UNCHANGED <<inventory, locks, orders, deliveries, opsLeft>>
  /\ UNCHANGED outsideOrders

NextOversell ==
  \/ \E p \in OversellProcs : OversellCreateOrder(p)
  \/ \E p \in OversellProcs : AcquireLock(p)
  \/ \E p \in OversellProcs : FindAvailable(p)
  \/ \E p \in OversellProcs : ReserveUpdate(p)
  \/ \E p \in OversellProcs : ReleaseLock(p)
  \/ \E p \in OversellProcs, otp \in GeneratedOTPs : OrderCreate(p, otp)

SpecOversell == InitOversell /\ [][NextOversell]_vars

\* ------------------------------------------- the driver gateway with rivals
\* one worker serves the order pipeline; the drivers of RivalDrivers act on
\* what it leaves, and a status update may carry any status of the schema
NextDriver ==
  \/ \E r \in LifecycleRequests :
        CreateOrder(1, r.userId, r.idempotencyKey, r.items)
  \/ AcquireLock(1)
  \/ FindAvailable(1)
  \/ ReserveUpdate(1)
  \/ ReleaseLock(1)
  \/ \E otp \in GeneratedOTPs : OrderCreate(1, otp)
  \/ \E oid \in OrderIds : PaymentWebhook(1, oid, PAID)
  \/ WebhookSave(1)
  \/ DeliveryCreate(1)
  \/ WebhookLink(1)
  \/ \E oid \in OrderIds : PharmacistAccept(oid)
  \/ \E oid \in OrderIds : PharmacistPrepared(oid)
  \/ \E d \in DeliveryIds, drv \in RivalDrivers : DriverAccept(d, drv)
  \/ \E drv \in RivalDrivers : DriverBind(drv)
  \/ \E d \in DeliveryIds, s \in deliveryStatusSchema : DriverStatus(d, s)
  \/ \E d \in DeliveryIds, otp \in OTPs : ConfirmDelivery(d, otp)

SpecDriver == Init /\ [][NextDriver]_vars

\* ------------------------------------------------ reading an order back
\* whoever may send GET /orders/:id, and the roles their token carries
Principals == Users \cup {"pharmacist1", "d1", "admin1"}

RolesOf(principal) ==
  CASE principal = "pharmacist1" -> {"pharmacist"}
    [] principal = "d1" -> {"driver"}
    [] principal = "admin1" -> {"admin"}
    [] OTHER -> {"user"}

\* getOrder: the authorization check
MayView(order, userId, userRoles) ==
  \/ order.user_id = userId
  \/ "admin" \in userRoles
  \/ "pharmacist" \in userRoles
  \/ "driver" \in userRoles

\* GET /orders/:id: the whole order document, otp_for_delivery included,
\* goes to the owner and to every admin, pharmacist and driver
GetOrder(p, oid, u) ==
  /\ Free(p)
  /\ opsLeft > 0
  /\ opsLeft' = opsLeft - 1
  /\ LET rec == [IdleProc EXCEPT !.op = "getOrder", !.userId = u, !.orderId = oid]
     IN proc' = [proc EXCEPT ![p] =
          [(IF oid > Len(orders) THEN Fail(rec, "ORDER_NOT_FOUND")
            ELSE IF ~MayView(orders[oid], u, RolesOf(u)) THEN Fail(rec, "FORBIDDEN")
            ELSE Done(rec, [code |-> "OK", order_id |-> oid,
                            otp |-> orders[oid].otp_for_delivery]))
           EXCEPT !.userId = u]]
  /\ UNCHANGED <<inventory, locks, orders, deliveries>>
  /\ UNCHANGED outsideOrders

NextDisclosure ==
  \/ \E p \in Procs, r \in LifecycleRequests :
        CreateOrder(p, r.userId, r.idempotencyKey, r.items)
  \/ \E p \in Procs : AcquireLock(p)
  \/ \E p \in Procs : FindAvailable(p)
  \/ \E p \in Procs : ReserveUpdate(p)
  \/ \E p \in Procs : ReleaseLock(p)
  \/ \E p \in Procs, otp \in GeneratedOTPs : OrderCreate(p, otp)
  \/ \E p \in Procs, oid \in OrderIds, u \in Principals : GetOrder(p, oid, u)

\* orders are created and read back
SpecDisclosure == Init /\ [][NextDisclosure]_vars

\* ------------------------------------------------------ the full-flow test
\* inv_1 starts with quantity_available 100 and the order takes 2 units
FullFlowStock == 100
FullFlowQty == 2

InitFullFlow ==
  /\ inventory = [r \in Rows |->
                    [quantity_available |-> IF r = 1 THEN FullFlowStock ELSE InitialStock[r],
                     reserved_qty |-> 0]]
  /\ locks = {}
  /\ orders = <<>>
  /\ deliveries = <<>>
  /\ proc = [p \in Procs |-> IdleProc]
  /\ opsLeft = MaxOps
  /\ IdentityAtRest
  /\ queue = <<>>
  /\ driverCall = [drv \in RivalDrivers |-> IdleCall]
  /\ SideAtRest

\* one customer orders, pays and is served by the pharmacist and one driver
NextFullFlow ==
  \/ CreateOrder(1, "u1", "k1", << Item("ph1", "m1", FullFlowQty) >>)
  \/ AcquireLock(1)
  \/ FindAvailable(1)
  \/ ReserveUpdate(1)
  \/ ReleaseLock(1)
  \/ \E otp \in GeneratedOTPs : OrderCreate(1, otp)
  \/ \E p \in Procs, oid \in OrderIds, ps \in WebhookStatuses : PaymentWebhook(p, oid, ps)
  \/ \E p \in Procs : WebhookSave(p)
  \/ \E p \in Procs : DeliveryCreate(p)
  \/ \E p \in Procs : WebhookLink(p)
  \/ \E oid \in OrderIds : PharmacistAccept(oid)
  \/ \E oid \in OrderIds : PharmacistPrepared(oid)
  \/ \E d \in DeliveryIds, drv \in Drivers : DriverAccept(d, drv)
  \/ \E drv \in Drivers : DriverBind(drv)
  \/ \E d \in DeliveryIds, s \in deliveryStatusSchema : DriverStatus(d, s)
  \/ \E d \in DeliveryIds, otp \in OTPs : ConfirmDelivery(d, otp)

SpecFullFlow == InitFullFlow /\ [][NextFullFlow]_vars

\* ------------------------------------------------------- the order total
\* amounts are counted in hundredths of the currency unit
Hundredths == 100

\* selling prices of the inventory rows in the tests
Prices == {22, 50, 100}

\* tax: inventory.selling_price * 0.18
Tax(price) == price * 18

\* reservations.push({ ..., qty, price: selling_price, tax })
Reservation(price, qty) == [qty |-> qty, price |-> price, tax |-> Tax(price)]

ReservedLines == {Reservation(price, qty) : price \in Prices, qty \in 1..MaxQty}

RECURSIVE SeqsUpTo(_, _)
\* the sequences over S of length 1..n
SeqsUpTo(S, n) ==
  IF n = 0 THEN {}
  ELSE LET shorter == SeqsUpTo(S, n - 1)
       IN {<<x>> : x \in S} \cup shorter
            \cup {Append(q, x) : q \in shorter, x \in S}

\* reserveInventory has returned reservedItems
InitTotal ==
  /\ inventory = [r \in Rows |->
                    [quantity_available |-> InitialStock[r], reserved_qty |-> 0]]
  /\ locks = {}
  /\ orders = <<>>
  /\ deliveries = <<>>
  /\ proc = [p \in Procs |-> IdleProc]
  /\ opsLeft = 0
  /\ IdentityAtRest
  /\ queue = <<>>
  /\ driverCall = [drv \in RivalDrivers |-> IdleCall]
  /\ cart \in {[NoCart EXCEPT !.items = its] : its \in SeqsUpTo(ReservedLines, MaxLines)}
  /\ rateKey = [e \in Endpoints |-> NoRateKey]
  /\ limiter = [p \in Procs |-> IdleLimiter]
  /\ callsLeft = 0
  /\ accounts = <<>>
  /\ pharmacies = {}
  /\ adminCall = [p \in Procs |-> IdleAdmin]
  /\ bus = "up"
  /\ reply = [p \in Procs |-> NoReply]

\* reduce((sum, item) => sum + (item.price * item.qty) + item.tax, 0): one item
TotalStep ==
  /\ cart.k < Len(cart.items)
  /\ LET item == cart.items[cart.k + 1]
     IN cart' = [cart EXCEPT
          !.k = @ + 1,
          !.total = @ + (item.price * item.qty) * Hundredths + item.tax]
  /\ UNCHANGED <<orderVars, identityVars, queue, driverCall>>
  /\ UNCHANGED <<limiterVars, adminVars, bus, reply>>

NextTotal == TotalStep

SpecTotal == InitTotal /\ [][NextTotal]_vars

\* ============================================================ auth service
\* isRefreshTokenValid: EXISTS refresh_token:<jti>
IsRefreshTokenValid(live, jti) == jti \in live

\* the revocation that leaves the key in place
RevokeKeepsKey(live, jti) == live

\* revokeRefreshToken: DEL refresh_token:<jti>
RevokeRefreshToken(live, jti) == live \ {jti}

\* the rewrite that forgets the used flag
MarkUsedForgets(data) == data

\* verifyOTP: otpData.used = true, written back for 60 s
MarkUsed(data) == [data EXCEPT !.used = TRUE]

\* generateTokenPair: the access token takes one uuid, the refresh token the next
AccessToken(n) == [type |-> "access", jti |-> n]

RefreshToken(n) == [type |-> "refresh", jti |-> n + 1]

\* every token the requests of a run can be handed: one pair per request
Tokens ==
  {AccessToken(2 * k - 1) : k \in 1..MaxOps}
    \cup {RefreshToken(2 * k - 1) : k \in 1..MaxOps}

\* the tokens handed out so far
IssuedTokens == {t \in Tokens : t.jti < nextJti}

\* an auth request goes to the first worker that is not serving one
FreeSession(p) ==
  /\ session[p].pc \in {"idle", "done"}
  /\ \A q \in DOMAIN session : q < p => ~(session[q].pc \in {"idle", "done"})

\* generateTokenPair and storeRefreshToken, the last step of verifyOTP,
\* login and refresh
IssueTokens(p) ==
  /\ nextJti' = nextJti + 2
  /\ liveSet' = liveSet \cup {RefreshToken(nextJti).jti}
  /\ session' = [session EXCEPT ![p] = Answer(session[p], "OK", RefreshToken(nextJti).jti)]

\* POST /auth/verify-otp up to the write-back: GET otp:<phone> and the checks
VerifyOTP(p, otp) ==
  /\ FreeSession(p)
  /\ authLeft > 0
  /\ authLeft' = authLeft - 1
  /\ LET rec == [IdleSession EXCEPT !.op = "verifyOTP", !.otp = otp,
                                    !.otpData = otpRecord]
     IN session' = [session EXCEPT ![p] =
          IF otpRecord = NoOtp THEN Answer(rec, "OTP_INVALID", 0)
          ELSE IF otpRecord.used THEN Answer(rec, "OTP_INVALID", 0)
          ELSE IF otpRecord.otp # otp THEN Answer(rec, "OTP_INVALID", 0)
          ELSE [rec EXCEPT !.pc = "vo_setex"]]
  /\ UNCHANGED <<user, otpRecord, liveSet, nextJti, now>>
  /\ UNCHANGED <<orderVars, queue, driverCall, sideVars>>

\* verifyOTP: SETEX otp:<phone> 60 with the parsed copy marked used
VerifySetex(p) ==
  /\ session[p].pc = "vo_setex"
  /\ otpRecord' = MarkUsed(session[p].otpData)
  /\ session' = [session EXCEPT ![p].pc = "vo_user"]
  /\ UNCHANGED <<user, liveSet, nextJti, now, authLeft>>
  /\ UNCHANGED <<orderVars, queue, driverCall, sideVars>>

\* AuthService.verifyOTP: User.findOneAndUpdate({ phone }, { is_verified: true })
VerifyUser(p) ==
  /\ session[p].pc = "vo_user"
  /\ user' = [user EXCEPT !.is_verified = TRUE]
  /\ session' = [session EXCEPT ![p].pc = "vo_store"]
  /\ UNCHANGED <<otpRecord, liveSet, nextJti, now, authLeft>>
  /\ UNCHANGED <<orderVars, queue, driverCall, sideVars>>

\* AuthService.verifyOTP: generateTokenPair, storeRefreshToken
VerifyStore(p) ==
  /\ session[p].pc = "vo_store"
  /\ IssueTokens(p)
  /\ UNCHANGED <<user, otpRecord, now, authLeft>>
  /\ UNCHANGED <<orderVars, queue, driverCall, sideVars>>

\* POST /auth/login up to its store: User.findOne, bcrypt.compare and the
\* is_verified check
Login(p, password) ==
  /\ FreeSession(p)
  /\ authLeft > 0
  /\ authLeft' = authLeft - 1
  /\ LET rec == [IdleSession EXCEPT !.op = "login"]
     IN session' = [session EXCEPT ![p] =
          IF password # user.password THEN Answer(rec, "INVALID_CREDENTIALS", 0)
          ELSE IF user.is_verified THEN [rec EXCEPT !.pc = "lg_store"]
          ELSE [rec EXCEPT !.pc = "lg_otp"]]
  /\ UNCHANGED <<user, otpRecord, liveSet, nextJti, now>>
  /\ UNCHANGED <<orderVars, queue, driverCall, sideVars>>

\* login of an unverified user: generateOTP, storeOTP, no tokens
LoginStoreOTP(p, otp) ==
  /\ session[p].pc = "lg_otp"
  /\ now' = now + 1
  /\ otpRecord' = StoreOTP(otp, now')
  /\ session' = [session EXCEPT ![p] = Answer(session[p], "VERIFY_FIRST", 0)]
  /\ UNCHANGED <<user, liveSet, nextJti, authLeft>>
  /\ UNCHANGED <<orderVars, queue, driverCall, sideVars>>

\* login of a verified user: generateTokenPair, storeRefreshToken
LoginStore(p) ==
  /\ session[p].pc = "lg_store"
  /\ IssueTokens(p)
  /\ UNCHANGED <<user, otpRecord, now, authLeft>>
  /\ UNCHANGED <<orderVars, queue, driverCall, sideVars>>

\* POST /auth/refresh up to the user look-up: verifyToken, the type check
\* and isRefreshTokenValid
Refresh(p, token) ==
  /\ token \in IssuedTokens
  /\ FreeSession(p)
  /\ authLeft > 0
  /\ authLeft' = authLeft - 1
  /\ LET rec == [IdleSession EXCEPT !.op = "refresh", !.token = token]
     IN session' = [session EXCEPT ![p] =
          IF token.type # "refresh" THEN Answer(rec, "TOKEN_INVALID", 0)
          ELSE IF ~IsRefreshTokenValid(liveSet, token.jti)
          THEN Answer(rec, "TOKEN_INVALID", 0)
          ELSE [rec EXCEPT !.pc = "rf_user"]]
  /\ UNCHANGED <<user, otpRecord, liveSet, nextJti, now>>
  /\ UNCHANGED <<orderVars, queue, driverCall, sideVars>>

\* refresh: User.findById(decoded.sub)
RefreshUser(p) ==
  /\ session[p].pc = "rf_user"
  /\ session' = [session EXCEPT ![p].pc = "rf_revoke"]
  /\ UNCHANGED <<user, otpRecord, liveSet, nextJti, now, authLeft>>
  /\ UNCHANGED <<orderVars, queue, driverCall, sideVars>>

\* refresh: revokeRefreshToken(decoded.jti)
RefreshRevoke(p) ==
  /\ session[p].pc = "rf_revoke"
  /\ liveSet' = RevokeRefreshToken(liveSet, session[p].token.jti)
  /\ session' = [session EXCEPT ![p].pc = "rf_store"]
  /\ UNCHANGED <<user, otpRecord, nextJti, now, authLeft>>
  /\ UNCHANGED <<orderVars, queue, driverCall, sideVars>>

\* refresh: generateTokenPair, storeRefreshToken
RefreshStore(p) ==
  /\ session[p].pc = "rf_store"
  /\ IssueTokens(p)
  /\ UNCHANGED <<user, otpRecord, now, authLeft>>
  /\ UNCHANGED <<orderVars, queue, driverCall, sideVars>>

\* POST /auth/logout: verifyToken, revokeRefreshToken(decoded.jti)
Logout(p, token) ==
  /\ token \in IssuedTokens
  /\ FreeSession(p)
  /\ authLeft > 0
  /\ authLeft' = authLeft - 1
  /\ liveSet' = RevokeRefreshToken(liveSet, token.jti)
  /\ session' = [session EXCEPT ![p] =
       Answer([IdleSession EXCEPT !.op = "logout", !.token = token], "OK", 0)]
  /\ UNCHANGED <<user, otpRecord, nextJti, now>>
  /\ UNCHANGED <<orderVars, queue, driverCall, sideVars>>

\* the TTL of otp:<phone> runs out
ExpireOTP ==
  /\ otpRecord # NoOtp
  /\ otpRecord' = NoOtp
  /\ UNCHANGED <<user, liveSet, nextJti, now, session, authLeft>>
  /\ UNCHANGED <<orderVars, queue, driverCall, sideVars>>

InitAuth ==
  /\ inventory = [r \in Rows |->
                    [quantity_available |-> InitialStock[r], reserved_qty |-> 0]]
  /\ locks = {}
  /\ orders = <<>>
  /\ deliveries = <<>>
  /\ proc = [p \in Procs |-> IdleProc]
  /\ opsLeft = 0
  /\ InitIdentity
  /\ queue = <<>>
  /\ driverCall = [drv \in RivalDrivers |-> IdleCall]
  /\ SideAtRest

NextAuth ==
  \/ \E p \in Procs, otp \in OTPs : VerifyOTP(p, otp)
  \/ \E p \in Procs : VerifySetex(p)
  \/ \E p \in Procs : VerifyUser(p)
  \/ \E p \in Procs : VerifyStore(p)
  \/ \E p \in Procs, password \in Passwords : Login(p, password)
  \/ \E p \in Procs, otp \in GeneratedOTPs : LoginStoreOTP(p, otp)
  \/ \E p \in Procs : LoginStore(p)
  \/ \E p \in Procs, token \in Tokens : Refresh(p, token)
  \/ \E p \in Procs : RefreshUser(p)
  \/ \E p \in Procs : RefreshRevoke(p)
  \/ \E p \in Procs : RefreshStore(p)
  \/ \E p \in Procs, token \in Tokens : Logout(p, token)
  \/ ExpireOTP

\* the auth service alone
SpecAuth == InitAuth /\ [][NextAuth]_vars

\* ------------------------------------------------- login by email_or_phone
\* the registered phone and a phone no user has
RegisteredPhone == "+919876543210"
Accounts == {RegisteredPhone, "+910000000000"}

\* AppError.invalidCredentials()
invalidCredentials ==
  [message |-> "Invalid credentials", status |-> 401, code |-> "INVALID_CREDENTIALS"]

\* AppError.userNotFound()
userNotFound ==
  [message |-> "User not found", status |-> 404, code |-> "USER_NOT_FOUND"]

\* User.findOne(query) finds a user
UserFound(account) == account = RegisteredPhone

\* the error that tells the caller the account does not exist
AbsentUserErrorNotFound == userNotFound

\* if (!user) throw AppError.invalidCredentials()
AbsentUserError == invalidCredentials

\* if (!isValidPassword) throw AppError.invalidCredentials()
WrongPasswordError == invalidCredentials

\* login up to its first write: the session the request leaves and the
\* error body it sends
LoginOutcome(account, password) ==
  LET rec == [IdleSession EXCEPT !.op = "login"]
      sent(body) == [account |-> account, password |-> password, body |-> body]
  IN IF ~UserFound(account)
     THEN [session |-> Answer(rec, AbsentUserError.code, 0),
           reply |-> sent(AbsentUserError)]
     ELSE IF password # user.password
     THEN [session |-> Answer(rec, WrongPasswordError.code, 0),
           reply |-> sent(WrongPasswordError)]
     ELSE IF user.is_verified
     THEN [session |-> [rec EXCEPT !.pc = "lg_store"], reply |-> sent(NoError)]
     ELSE [session |-> [rec EXCEPT !.pc = "lg_otp"], reply |-> sent(NoError)]

\* POST /auth/login with email_or_phone and password
LoginAs(p, account, password) ==
  /\ FreeSession(p)
  /\ authLeft > 0
  /\ authLeft' = authLeft - 1
  /\ session' = [session EXCEPT ![p] = LoginOutcome(account, password).session]
  /\ reply' = [reply EXCEPT ![p] = LoginOutcome(account, password).reply]
  /\ UNCHANGED <<user, otpRecord, liveSet, nextJti, now>>
  /\ UNCHANGED <<orderVars, queue, driverCall, cart, limiterVars, adminVars, bus>>

NextLogin ==
  \/ \E p \in Procs, otp \in OTPs : VerifyOTP(p, otp)
  \/ \E p \in Procs : VerifySetex(p)
  \/ \E p \in Procs : VerifyUser(p)
  \/ \E p \in Procs : VerifyStore(p)
  \/ \E p \in Procs, account \in Accounts, password \in Passwords :
        LoginAs(p, account, password)
  \/ \E p \in Procs, otp \in GeneratedOTPs : LoginStoreOTP(p, otp)
  \/ \E p \in Procs : LoginStore(p)

\* registration, verification and login by any account
SpecLogin == InitAuth /\ [][NextLogin]_vars

\* --------------------------------------------------------- the rate limiter
\* loginRateLimiter, otpRateLimiter, registrationRateLimiter: maxRequests
MaxRequestsOf(e) ==
  CASE e = "login" -> 5
    [] e = "otp" -> 3
    [] e = "register" -> 5

\* the test that lets one request too many through
AllowedOneMore(count, maxRequests) == count <= maxRequests + 1

\* allowed = count <= maxRequests
Allowed(count, maxRequests) == count <= maxRequests

FreeLimiter(p) ==
  /\ limiter[p].pc \in {"idle", "done"}
  /\ \A q \in DOMAIN limiter : q < p => ~(limiter[q].pc \in {"idle", "done"})

\* checkRateLimit: MULTI { INCR key; TTL key } EXEC
RateIncr(p, e) ==
  /\ e \in DOMAIN rateKey
  /\ FreeLimiter(p)
  /\ callsLeft > 0
  /\ callsLeft' = callsLeft - 1
  /\ LET key == rateKey[e]
         created == key.ttl = -2
         after == [key EXCEPT !.count = @ + 1,
                              !.ttl = IF created THEN -1 ELSE @,
                              !.window = IF created THEN @ + 1 ELSE @]
     IN /\ rateKey' = [rateKey EXCEPT ![e] = after]
        /\ limiter' = [limiter EXCEPT ![p] =
             [pc |-> IF after.ttl = -1 THEN "expire" ELSE "respond",
              endpoint |-> e, count |-> after.count, ttl |-> after.ttl,
              window |-> after.window, code |-> "none"]]
  /\ UNCHANGED <<orderVars, identityVars, queue, driverCall>>
  /\ UNCHANGED <<cart, adminVars, bus, reply>>

\* checkRateLimit: if (ttl === -1) client.expire(key, windowSeconds)
RateExpire(p) ==
  /\ limiter[p].pc = "expire"
  /\ LET e == limiter[p].endpoint
     IN rateKey' = [rateKey EXCEPT ![e].ttl = IF @ = -2 THEN -2 ELSE 1]
  /\ limiter' = [limiter EXCEPT ![p].pc = "respond", ![p].ttl = 1]
  /\ UNCHANGED callsLeft
  /\ UNCHANGED <<orderVars, identityVars, queue, driverCall>>
  /\ UNCHANGED <<cart, adminVars, bus, reply>>

\* rateLimiter: next() when allowed, else next(AppError.tooManyRequests())
RateRespond(p) ==
  /\ limiter[p].pc = "respond"
  /\ LET rec == limiter[p]
         e == rec.endpoint
     IN IF Allowed(rec.count, MaxRequestsOf(e))
        THEN /\ limiter' = [limiter EXCEPT ![p].pc = "done", ![p].code = "OK"]
             /\ rateKey' = [rateKey EXCEPT ![e].admitted[rec.window] = @ + 1]
        ELSE /\ limiter' = [limiter EXCEPT ![p].pc = "done",
                                           ![p].code = "RATE_LIMITED"]
             /\ UNCHANGED rateKey
  /\ UNCHANGED callsLeft
  /\ UNCHANGED <<orderVars, identityVars, queue, driverCall>>
  /\ UNCHANGED <<cart, adminVars, bus, reply>>

\* Redis drops a key whose time to live has run out
KeyExpires(e) ==
  /\ e \in DOMAIN rateKey
  /\ rateKey[e].ttl = 1
  /\ rateKey' = [rateKey EXCEPT ![e].count = 0, ![e].ttl = -2]
  /\ UNCHANGED <<limiter, callsLeft>>
  /\ UNCHANGED <<orderVars, identityVars, queue, driverCall>>
  /\ UNCHANGED <<cart, adminVars, bus, reply>>

\* the keys of different endpoints share nothing: a run follows one of them
InitLimiter ==
  /\ inventory = [r \in Rows |->
                    [quantity_available |-> InitialStock[r], reserved_qty |-> 0]]
  /\ locks = {}
  /\ orders = <<>>
  /\ deliveries = <<>>
  /\ proc = [p \in Procs |-> IdleProc]
  /\ opsLeft = 0
  /\ IdentityAtRest
  /\ queue = <<>>
  /\ driverCall = [drv \in RivalDrivers |-> IdleCall]
  /\ cart = NoCart
  /\ rateKey \in {[e \in {limited} |-> NoRateKey] : limited \in Endpoints}
  /\ limiter = [p \in Procs |-> IdleLimiter]
  /\ callsLeft = MaxCalls
  /\ accounts = <<>>
  /\ pharmacies = {}
  /\ adminCall = [p \in Procs |-> IdleAdmin]
  /\ bus = "up"
  /\ reply = [p \in Procs |-> NoReply]

NextLimiter ==
  \/ \E p \in Procs, e \in Endpoints : RateIncr(p, e)
  \/ \E p \in Procs : RateExpire(p)
  \/ \E p \in Procs : RateRespond(p)
  \/ \E e \in Endpoints : KeyExpires(e)

\* requests from one client ip at a rate-limited endpoint
SpecLimiter == InitLimiter /\ [][NextLimiter]_vars

\* ------------------------------------------- create-pharmacist, create-driver
\* the phone numbers an admin may register, each with its own email
Phones == {1, 2}

\* the email of a pharmacist is the one the admin gives for that phone; the
\* email of a driver is driver_<index>@driver.medassist.local
GivenEmail(phone) == [local |-> "given", index |-> phone]
DriverEmail(driverCount) == [local |-> "driver", index |-> driverCount + 1]

\* User.findOne({ $or: [{ email }, { phone }] }) finds a user
ExistingUser(email, phone) ==
  \E a \in 1..Len(accounts) : accounts[a].email = email \/ accounts[a].phone = phone

\* the unique indexes on users.email and users.phone
UniqueUserIndex(email, phone) ==
  \A a \in 1..Len(accounts) : accounts[a].email # email /\ accounts[a].phone # phone

\* User.countDocuments({ roles: ROLES.DRIVER })
CountDrivers ==
  Cardinality({a \in 1..Len(accounts) : accounts[a].role = "driver"})

FreeAdmin(p) ==
  /\ adminCall[p].pc \in {"idle", "done"}
  /\ \A q \in DOMAIN adminCall : q < p => ~(adminCall[q].pc \in {"idle", "done"})

AnswerAdmin(rec, code) == [rec EXCEPT !.pc = "done", !.code = code]

\* createPharmacist up to User.create: the look-up by email or phone
CreatePharmacist(p, phone, pharmacyOk) ==
  /\ FreeAdmin(p)
  /\ LET rec == [IdleAdmin EXCEPT !.op = "createPharmacist", !.phone = phone,
                                  !.pharmacyOk = pharmacyOk]
     IN adminCall' = [adminCall EXCEPT ![p] =
          IF ExistingUser(GivenEmail(phone), phone) THEN AnswerAdmin(rec, "USER_EXISTS")
          ELSE [rec EXCEPT !.pc = "pm_user"]]
  /\ UNCHANGED <<accounts, pharmacies>>
  /\ UNCHANGED <<orderVars, identityVars, queue, driverCall>>
  /\ UNCHANGED <<cart, limiterVars, bus, reply>>

\* createPharmacist: User.create with the pharmacist role
PharmacistUser(p) ==
  /\ adminCall[p].pc = "pm_user"
  /\ LET rec == adminCall[p]
     IN IF UniqueUserIndex(GivenEmail(rec.phone), rec.phone)
        THEN /\ accounts' = Append(accounts,
                  [role |-> "pharmacist", email |-> GivenEmail(rec.phone),
                   phone |-> rec.phone])
             /\ adminCall' = [adminCall EXCEPT ![p] =
                  [rec EXCEPT !.pc = "pm_pharmacy", !.user = Len(accounts) + 1]]
        ELSE /\ adminCall' = [adminCall EXCEPT ![p] = AnswerAdmin(rec, "DUPLICATE_KEY")]
             /\ UNCHANGED accounts
  /\ UNCHANGED pharmacies
  /\ UNCHANGED <<orderVars, identityVars, queue, driverCall>>
  /\ UNCHANGED <<cart, limiterVars, bus, reply>>

\* createPharmacist: Pharmacy.create, which the store may refuse (a name or
\* address that trims to nothing, a write error); the error is rethrown
PharmacyCreate(p) ==
  /\ adminCall[p].pc = "pm_pharmacy"
  /\ LET rec == adminCall[p]
     IN IF rec.pharmacyOk
        THEN /\ pharmacies' = pharmacies \cup {rec.user}
             /\ adminCall' = [adminCall EXCEPT ![p] = AnswerAdmin(rec, "OK")]
        ELSE /\ adminCall' = [adminCall EXCEPT ![p] = AnswerAdmin(rec, "INTERNAL_ERROR")]
             /\ UNCHANGED pharmacies
  /\ UNCHANGED accounts
  /\ UNCHANGED <<orderVars, identityVars, queue, driverCall>>
  /\ UNCHANGED <<cart, limiterVars, bus, reply>>

\* createDriver: countDocuments, from which the driver index is made
CreateDriver(p, phone) ==
  /\ FreeAdmin(p)
  /\ adminCall' = [adminCall EXCEPT ![p] =
       [IdleAdmin EXCEPT !.pc = "dr_find", !.op = "createDriver", !.phone = phone,
                         !.driverCount = CountDrivers]]
  /\ UNCHANGED <<accounts, pharmacies>>
  /\ UNCHANGED <<orderVars, identityVars, queue, driverCall>>
  /\ UNCHANGED <<cart, limiterVars, bus, reply>>

\* createDriver: User.findOne({ phone })
DriverFind(p) ==
  /\ adminCall[p].pc = "dr_find"
  /\ LET rec == adminCall[p]
     IN adminCall' = [adminCall EXCEPT ![p] =
          IF \E a \in 1..Len(accounts) : accounts[a].phone = rec.phone
          THEN AnswerAdmin(rec, "USER_EXISTS")
          ELSE [rec EXCEPT !.pc = "dr_user"]]
  /\ UNCHANGED <<accounts, pharmacies>>
  /\ UNCHANGED <<orderVars, identityVars, queue, driverCall>>
  /\ UNCHANGED <<cart, limiterVars, bus, reply>>

\* createDriver: User.create with the generated email
DriverUser(p) ==
  /\ adminCall[p].pc = "dr_user"
  /\ LET rec == adminCall[p]
         email == DriverEmail(rec.driverCount)
     IN IF UniqueUserIndex(email, rec.phone)
        THEN /\ accounts' = Append(accounts,
                  [role |-> "driver", email |-> email, phone |-> rec.phone])
             /\ adminCall' = [adminCall EXCEPT ![p] =
                  AnswerAdmin([rec EXCEPT !.user = Len(accounts) + 1], "OK")]
        ELSE /\ adminCall' = [adminCall EXCEPT ![p] = AnswerAdmin(rec, "DUPLICATE_KEY")]
             /\ UNCHANGED accounts
  /\ UNCHANGED pharmacies
  /\ UNCHANGED <<orderVars, identityVars, queue, driverCall>>
  /\ UNCHANGED <<cart, limiterVars, bus, reply>>

NextAdmin ==
  \/ \E p \in Procs, phone \in Phones, pharmacyOk \in BOOLEAN :
        CreatePharmacist(p, phone, pharmacyOk)
  \/ \E p \in Procs : PharmacistUser(p)
  \/ \E p \in Procs : PharmacyCreate(p)
  \/ \E p \in Procs, phone \in Phones : CreateDriver(p, phone)
  \/ \E p \in Procs : DriverFind(p)
  \/ \E p \in Procs : DriverUser(p)

\* the admin operations of the auth service
SpecAdmin == Init /\ [][NextAdmin]_vars

\* ======================================================== event consumer
Messages == 1..NumMessages

\* consumeMessages: if (content.retries < 3)
RetryLimit == 3

\* createMessage: { message_id, ..., retries: 0 }
CreateMessage(m) == [message_id |-> m, retries |-> 0]

Unpublished == [state |-> "unpublished", content |-> CreateMessage(0), failures |-> 0]

\* publishMessage(exchange, routingKey, createMessage(type, payload))
Publish(m) ==
  /\ queue[m].state = "unpublished"
  /\ queue' = [queue EXCEPT ![m] =
       [state |-> "ready", content |-> CreateMessage(m), failures |-> 0]]
  /\ UNCHANGED <<orderVars, identityVars, driverCall, sideVars>>

\* ch.consume: the broker hands the message to the callback
Deliver(m) ==
  /\ queue[m].state = "ready"
  /\ queue[m].failures < MaxAttempts
  /\ queue' = [queue EXCEPT ![m].state = "unacked"]
  /\ UNCHANGED <<orderVars, identityVars, driverCall, sideVars>>

\* the callback: await handler(content, msg); ch.ack(msg)
HandlerReturns(m) ==
  /\ queue[m].state = "unacked"
  /\ queue' = [queue EXCEPT ![m].state = "acked"]
  /\ UNCHANGED <<orderVars, identityVars, driverCall, sideVars>>

\* the callback's catch: the parsed copy is counted up and serialised into
\* a buffer that nothing sends; msg itself waits for the nack
HandlerThrows(m) ==
  /\ queue[m].state = "unacked"
  /\ LET msg == queue[m]
         content == msg.content
     IN queue' = [queue EXCEPT ![m] =
          IF content.retries < RetryLimit
          THEN LET buffer == [content EXCEPT !.retries = @ + 1]
               IN [msg EXCEPT !.state = "backoff", !.failures = @ + 1]
          ELSE [msg EXCEPT !.state = "acked", !.failures = @ + 1]]
  /\ UNCHANGED <<orderVars, identityVars, driverCall, sideVars>>

\* setTimeout: ch.nack(msg, false, true) puts msg back as it was delivered
Nack(m) ==
  /\ queue[m].state = "backoff"
  /\ queue' = [queue EXCEPT ![m].state = "ready"]
  /\ UNCHANGED <<orderVars, identityVars, driverCall, sideVars>>

InitConsumer ==
  /\ inventory = [r \in Rows |->
                    [quantity_available |-> InitialStock[r], reserved_qty |-> 0]]
  /\ locks = {}
  /\ orders = <<>>
  /\ deliveries = <<>>
  /\ proc = [p \in Procs |-> IdleProc]
  /\ opsLeft = 0
  /\ IdentityAtRest
  /\ queue = [m \in Messages |-> Unpublished]
  /\ driverCall = [drv \in RivalDrivers |-> IdleCall]
  /\ SideAtRest

NextConsumer ==
  \/ \E m \in Messages : Publish(m)
  \/ \E m \in Messages : Deliver(m)
  \/ \E m \in Messages : HandlerReturns(m)
  \/ \E m \in Messages : HandlerThrows(m)
  \/ \E m \in Messages : Nack(m)

\* the event consumer alone
SpecConsumer == InitConsumer /\ [][NextConsumer]_vars

\* ------------------------------------------- the lock store is unavailable

\* an error that is not an AppError is answered by the default branch of
\* the error handler
internalError == "INTERNAL_ERROR"

\* reserveInventory: acquireLock rejects, the Redis command failed; the
\* lock id was not pushed, the finally block runs with the error pending
AcquireLockError(p) ==
  /\ proc[p].pc = "ri_acquire"
  /\ proc' = [proc EXCEPT ![p] = EnterFinally(proc[p], internalError)]
  /\ UNCHANGED <<inventory, locks, orders, deliveries, opsLeft>>
  /\ UNCHANGED outsideOrders

\* reserveInventory: releaseLock rejects inside the finally block; the loop
\* is left with the locks not yet released and the rejection replaces the
\* return value or the pending error
ReleaseLockError(p) ==
  /\ proc[p].pc = "ri_release"
  /\ proc' = [proc EXCEPT ![p] = Fail(proc[p], internalError)]
  /\ UNCHANGED <<inventory, locks, orders, deliveries, opsLeft>>
  /\ UNCHANGED outsideOrders

NextLockStore ==
  \/ \E p \in Procs, r \in CreateRequests :
        CreateOrder(p, r.userId, r.idempotencyKey, r.items)
  \/ \E p \in Procs : AcquireLock(p)
  \/ \E p \in Procs : AcquireLockError(p)
  \/ \E p \in Procs : FindAvailable(p)
  \/ \E p \in Procs : ReserveUpdate(p)
  \/ \E p \in Procs : ReleaseLock(p)
  \/ \E p \in Procs : ReleaseLockError(p)
  \/ \E p \in Procs, otp \in GeneratedOTPs : OrderCreate(p, otp)

\* createOrder with a lock store whose commands may fail
SpecLockStore == Init /\ [][NextLockStore]_vars

\* ------------------------------------------------- the lock is lost by TTL

\* the lock ids of the inventory rows
LockIds == {<<RowAttr[r].pharmacy_id, RowAttr[r].medicine_id>> : r \in Rows}

\* SET key 1 EX ttl NX: the key expires while its holder is still inside
ExpireLock(l) ==
  /\ l \in locks
  /\ locks' = locks \ {l}
  /\ UNCHANGED <<inventory, orders, deliveries, proc, opsLeft>>
  /\ UNCHANGED outsideOrders

NextExpiry ==
  \/ \E p \in Procs, r \in CreateRequests :
        CreateOrder(p, r.userId, r.idempotencyKey, r.items)
  \/ \E p \in Procs : AcquireLock(p)
  \/ \E p \in Procs : FindAvailable(p)
  \/ \E p \in Procs : ReserveUpdate(p)
  \/ \E p \in Procs : ReleaseLock(p)
  \/ \E p \in Procs, otp \in GeneratedOTPs : OrderCreate(p, otp)
  \/ \E l \in LockIds : ExpireLock(l)

\* createOrder with locks that may expire before they are released
SpecExpiry == Init /\ [][NextExpiry]_vars

\* --------------------------------------------- the document store fails

\* reserveInventory: Inventory.findOne or Inventory.findOneAndUpdate
\* rejects and nothing is written; the finally block runs with the error
StoreError(p) ==
  /\ proc[p].pc \in {"ri_find", "ri_update"}
  /\ proc' = [proc EXCEPT ![p] = EnterFinally(proc[p], internalError)]
  /\ UNCHANGED <<inventory, locks, orders, deliveries, opsLeft>>
  /\ UNCHANGED outsideOrders

NextStoreError ==
  \/ \E p \in Procs, r \in CreateRequests :
        CreateOrder(p, r.userId, r.idempotencyKey, r.items)
  \/ \E p \in Procs : AcquireLock(p)
  \/ \E p \in Procs : FindAvailable(p)
  \/ \E p \in Procs : ReserveUpdate(p)
  \/ \E p \in Procs : StoreError(p)
  \/ \E p \in Procs : ReleaseLock(p)
  \/ \E p \in Procs, otp \in GeneratedOTPs : OrderCreate(p, otp)

\* createOrder with a document store whose reads and updates may fail
SpecStoreError == Init /\ [][NextStoreError]_vars

\* ---------------------------------------------- the event bus is unreachable

\* the services start with the bus reachable or not; one request more than
\* MaxOps may arrive, so that one order is delivered and another cancelled
InitBus ==
  /\ inventory = [r \in Rows |->
                    [quantity_available |-> InitialStock[r], reserved_qty |-> 0]]
  /\ locks = {}
  /\ orders = <<>>
  /\ deliveries = <<>>
  /\ proc = [p \in Procs |-> IdleProc]
  /\ opsLeft = MaxOps + 1
  /\ IdentityAtRest
  /\ queue = <<>>
  /\ driverCall = [drv \in RivalDrivers |-> IdleCall]
  /\ cart = NoCart
  /\ rateKey = [e \in Endpoints |-> NoRateKey]
  /\ limiter = [p \in Procs |-> IdleLimiter]
  /\ callsLeft = 0
  /\ accounts = <<>>
  /\ pharmacies = {}
  /\ adminCall = [p \in Procs |-> IdleAdmin]
  /\ bus \in {"up", "down"}
  /\ reply = [p \in Procs |-> NoReply]

\* the order's life with one worker: created, paid, cancelled or served by
\* the pharmacist and one driver up to the commit
NextBus ==
  \/ \E r \in LifecycleRequests :
        CreateOrder(1, r.userId, r.idempotencyKey, r.items)
  \/ AcquireLock(1)
  \/ FindAvailable(1)
  \/ ReserveUpdate(1)
  \/ ReleaseLock(1)
  \/ \E otp \in GeneratedOTPs : OrderCreate(1, otp)
  \/ \E oid \in OrderIds, u \in Users : CancelOrder(1, oid, u)
  \/ ReleaseReserved(1)
  \/ CancelSave(1)
  \/ \E oid \in OrderIds : PaymentWebhook(1, oid, PAID)
  \/ WebhookSave(1)
  \/ DeliveryCreate(1)
  \/ WebhookLink(1)
  \/ \E oid \in OrderIds : PharmacistAccept(oid)
  \/ \E oid \in OrderIds : PharmacistPrepared(oid)
  \/ \E d \in DeliveryIds, drv \in Drivers : DriverAccept(d, drv)
  \/ \E drv \in Drivers : DriverBind(drv)
  \/ \E d \in DeliveryIds, s \in {"picked_up", "in_transit"} : DriverStatus(d, s)
  \/ \E d \in DeliveryIds, otp \in OTPs : ConfirmDelivery(d, otp)

SpecBus == InitBus /\ [][NextBus]_vars

\* --------------------------------------- the first holder's lock is lost

\* the request of worker p is inside reserveInventory with l among the
\* locks it acquired
Inside(p, l) ==
  /\ proc[p].pc \in {"ri_acquire", "ri_find", "ri_update", "ri_release"}
  /\ \E k \in 1..Len(proc[p].lockedInventory) : proc[p].lockedInventory[k] = l

\* SET key 1 EX ttl NX: the key set by the first worker's request expires
\* while that request is inside; the other requests finish within the TTL
ExpireFirstHolder(l) ==
  /\ l \in locks
  /\ Inside(1, l)
  /\ \A q \in Procs \ {1} : ~Inside(q, l)
  /\ locks' = locks \ {l}
  /\ UNCHANGED <<inventory, orders, deliveries, proc, opsLeft>>
  /\ UNCHANGED outsideOrders

NextLostLock ==
  \/ \E p \in Procs, r \in CreateRequests :
        CreateOrder(p, r.userId, r.idempotencyKey, r.items)
  \/ \E p \in Procs : AcquireLock(p)
  \/ \E p \in Procs : FindAvailable(p)
  \/ \E p \in Procs : ReserveUpdate(p)
  \/ \E p \in Procs : ReleaseLock(p)
  \/ \E p \in Procs, otp \in GeneratedOTPs : OrderCreate(p, otp)
  \/ \E l \in LockIds : ExpireFirstHolder(l)

\* createOrder where only the first holder's lock may expire
SpecLostLock == Init /\ [][NextLostLock]_vars

\* ----------------------------------------------- several batches of m1

\* the stock a batch of m1 may start with
BatchStock == {0, 1, 2}

\* m1 has the batch b1, the later batch b2 and the expired batch b0, each
\* with some stock; m2 has its one batch
InitBatches ==
  /\ inventory \in
       {[r \in Rows |-> [quantity_available |-> IF r = 2 THEN InitialStock[2] ELSE st[r],
                         reserved_qty |-> 0]] : st \in [Rows -> BatchStock]}
  /\ locks = {}
  /\ orders = <<>>
  /\ deliveries = <<>>
  /\ proc = [p \in Procs |-> IdleProc]
  /\ opsLeft = MaxOps
  /\ IdentityAtRest
  /\ queue = <<>>
  /\ driverCall = [drv \in RivalDrivers |-> IdleCall]
  /\ SideAtRest

\* one worker creates and cancels orders
NextBatches ==
  \/ \E r \in CreateRequests :
        CreateOrder(1, r.userId, r.idempotencyKey, r.items)
  \/ AcquireLock(1)
  \/ FindAvailable(1)
  \/ ReserveUpdate(1)
  \/ ReleaseLock(1)
  \/ \E otp \in GeneratedOTPs : OrderCreate(1, otp)
  \/ \E oid \in OrderIds, u \in Users : CancelOrder(1, oid, u)
  \/ ReleaseReserved(1)
  \/ CancelSave(1)

SpecBatches == InitBatches /\ [][NextBatches]_vars

\* ------------------------------------- one medicine on two lines of an order

\* POST /orders bodies that pass the request schema and name (ph1, m1) twice,
\* and one that names two medicines
RepeatedLineRequests ==
  { [userId |-> "u1", idempotencyKey |-> NoKey,
     items |-> << Item("ph1", "m1", 1), Item("ph1", "m1", 1) >>],
    [userId |-> "u2", idempotencyKey |-> NoKey,
     items |-> << Item("ph1", "m1", 1), Item("ph1", "m1", 2) >>],
    [userId |-> "u2", idempotencyKey |-> NoKey,
     items |-> << Item("ph1", "m1", 1), Item("ph1", "m2", 1) >>] }

NextRepeatedLine ==
  \/ \E p \in Procs, r \in RepeatedLineRequests :
        CreateOrder(p, r.userId, r.idempotencyKey, r.items)
  \/ \E p \in Procs : AcquireLock(p)
  \/ \E p \in Procs : FindAvailable(p)
  \/ \E p \in Procs : ReserveUpdate(p)
  \/ \E p \in Procs : ReleaseLock(p)
  \/ \E p \in Procs, otp \in GeneratedOTPs : OrderCreate(p, otp)

SpecRepeatedLine == Init /\ [][NextRepeatedLine]_vars

\* ------------------------------------------------ every request terminates

\* the next step of the request worker p is serving; every store call of
\* createOrder is awaited and answered
Work(p) ==
  \/ AcquireLock(p)
  \/ FindAvailable(p)
  \/ ReserveUpdate(p)
  \/ ReleaseLock(p)
  \/ \E otp \in GeneratedOTPs : OrderCreate(p, otp)

NextTerminates ==
  \/ \E p \in Procs, r \in CreateRequests :
        CreateOrder(p, r.userId, r.idempotencyKey, r.items)
  \/ \E p \in Procs : Work(p)

\* createOrder with stores that answer every call
SpecTerminates ==
  /\ Init
  /\ [][NextTerminates]_vars
  /\ \A p \in Procs : WF_vars(Work(p))

\* ================================================================ claims
Total(row) == row.quantity_available + row.reserved_qty

RECURSIVE LineQty(_, _, _)
\* the quantity the lines of an order hold on row r
LineQty(ph, lines, r) ==
  IF lines = <<>> THEN 0
  ELSE (IF MatchBatch(r, ph, Head(lines)) THEN Head(lines).qty ELSE 0)
       + LineQty(ph, Tail(lines), r)

Finished(p, op) == proc[p].pc = "done" /\ proc[p].op = op

Quiescent == \A p \in DOMAIN proc : proc[p].pc \in {"idle", "done"}

DeliveriesOf(oid) == {d \in 1..Len(deliveries) : deliveries[d].order_id = oid}

\* C1: in every reachable state every inventory row has
\* quantity_available >= 0 and reserved_qty >= 0.
C1_NonNegativeStock ==
  \A r \in Rows : inventory[r].quantity_available >= 0 /\ inventory[r].reserved_qty >= 0

OversellCount(code) ==
  Cardinality({p \in DOMAIN proc : proc[p].pc = "done" /\ proc[p].result.code = code})

OversellFinished == \A p \in DOMAIN proc : proc[p].pc = "done"

C4_PartialFailureReleased ==
  \A p \in DOMAIN proc :
    (Finished(p, "createOrder")
       /\ proc[p].result.code \in {"INVENTORY_LOCKED", "INSUFFICIENT_STOCK"})
    => \A r \in Rows : proc[p].moved[r] = 0

\* C5: a createOrder arriving with a key for which an order exists answers
\* at once with that order's id and otp_for_delivery, and changes neither
\* the orders nor the inventory, the locks or the deliveries.
C5_ReplayReturnsExisting ==
  [][ \A p \in Procs, rq \in CreateRequests :
        ( /\ CreateOrder(p, rq.userId, rq.idempotencyKey, rq.items)
          /\ rq.idempotencyKey # NoKey
          /\ \E o \in 1..Len(orders) : orders[o].idempotency_key = rq.idempotencyKey )
        => /\ proc'[p].pc = "done"
           /\ proc'[p].result.code = "OK"
           /\ proc'[p].result.order_id \in 1..Len(orders)
           /\ orders[proc'[p].result.order_id].idempotency_key = rq.idempotencyKey
           /\ proc'[p].result.otp = orders[proc'[p].result.order_id].otp_for_delivery
           /\ orders' = orders
           /\ inventory' = inventory
           /\ locks' = locks
           /\ deliveries' = deliveries ]_vars

\* C5 witness: a replay was answered with the id and otp of the one order
\* that exists, it reserved nothing itself, and the stock that order
\* reserved is all that is reserved.
C5_Witness ==
  \E p \in Procs :
    /\ Finished(p, "createOrder")
    /\ proc[p].result.code = "OK"
    /\ \A r \in Rows : proc[p].moved[r] = 0
    /\ Len(orders) = 1
    /\ proc[p].result.order_id = 1
    /\ proc[p].result.otp = orders[1].otp_for_delivery
    /\ orders[1].idempotency_key # NoKey
    /\ \A r \in Rows :
         inventory[r].reserved_qty = LineQty(orders[1].pharmacy_id, orders[1].items, r)

\* C6: at most one order exists for each idempotency key.
C6_OneOrderPerKey ==
  \A o1 \in 1..Len(orders), o2 \in 1..Len(orders) :
    (o1 # o2 /\ orders[o1].idempotency_key # NoKey)
    => orders[o1].idempotency_key # orders[o2].idempotency_key

\* C6 witness: two requests with the same key both passed the look-up, one
\* created the order and the other was refused by the index.
C6_Witness ==
  \E p \in Procs, q \in Procs :
    /\ Finished(p, "createOrder") /\ proc[p].result.code = "OK"
    /\ Finished(q, "createOrder") /\ proc[q].result.code = "DUPLICATE_KEY"
    /\ orders[proc[p].result.order_id].idempotency_key # NoKey
    /\ Len(orders) = 1

\* the transition table of the order status
validTransitions ==
  { <<CREATED, ACCEPTED_BY_PHARMACY>>, <<CREATED, CANCELLED>>,
    <<ACCEPTED_BY_PHARMACY, PREPARED>>, <<ACCEPTED_BY_PHARMACY, CANCELLED>>,
    <<PREPARED, DRIVER_ASSIGNED>>, <<PREPARED, CANCELLED>>,
    <<DRIVER_ASSIGNED, IN_TRANSIT>>, <<DRIVER_ASSIGNED, CANCELLED>>,
    <<IN_TRANSIT, DELIVERED>>, <<IN_TRANSIT, FAILED>> }

\* C7: an order starts in created, every change of its status is an edge of
\* the transition table, and delivered, cancelled and failed are never left.
C7_StatusFollowsGraph ==
  [][ \A o \in 1..Len(orders') :
        IF o <= Len(orders)
        THEN \/ orders'[o].status = orders[o].status
             \/ <<orders[o].status, orders'[o].status>> \in validTransitions
        ELSE orders'[o].status = CREATED ]_vars

C9_SingleWinner ==
  \A p \in Procs, q \in Procs :
    (p # q /\ Finished(p, "cancelOrder") /\ Finished(q, "cancelOrder")
       /\ proc[p].orderId = proc[q].orderId /\ proc[p].result.code = "OK")
    => proc[q].result.code # "OK"

\* C10: once no webhook is in progress, every order whose payment status is
\* paid is referenced by exactly one delivery.
C10_OneDeliveryPerPaidOrder ==
  Quiescent =>
    \A o \in 1..Len(orders) :
      orders[o].payment_status = PAID => Cardinality(DeliveriesOf(o)) = 1

FinishedAuth(p, op) == session[p].pc = "done" /\ session[p].op = op

\* C11: a refresh goes on only when the presented token is a refresh token
\* whose identifier is in the live set, and otherwise answers TOKEN_INVALID
\* and changes nothing; when the new identifier is inserted the old one is
\* already out of the live set; only fresh identifiers ever enter the live
\* set, so a rotated or logged-out identifier stays out; a logout leaves the
\* presented identifier out of the live set.
C11_RotationRevokes ==
  [][ /\ \A p \in Procs, t \in Tokens :
           Refresh(p, t)
           => IF t.type = "refresh" /\ t.jti \in liveSet
              THEN session'[p].pc = "rf_user"
              ELSE /\ session'[p].pc = "done"
                   /\ session'[p].code = "TOKEN_INVALID"
                   /\ liveSet' = liveSet
      /\ \A p \in Procs :
           RefreshStore(p)
           => /\ ~(session[p].token.jti \in liveSet)
              /\ ~(session[p].token.jti \in liveSet')
              /\ session'[p].issued \in liveSet'
      /\ \A j \in liveSet' \ liveSet : j >= nextJti
      /\ \A p \in Procs, t \in Tokens :
           Logout(p, t) => ~(t.jti \in liveSet') ]_vars

\* C11 witness: a refresh rotated a token into a live successor and a later
\* refresh that presented the old token was answered TOKEN_INVALID.
C11_Witness ==
  \E p \in Procs, q \in Procs :
    /\ FinishedAuth(p, "refresh") /\ session[p].code = "OK"
    /\ session[p].issued \in liveSet
    /\ FinishedAuth(q, "refresh") /\ session[q].code = "TOKEN_INVALID"
    /\ session[q].token = session[p].token
    /\ ~(session[p].token.jti \in liveSet)

\* C12: no two refresh requests that presented the same refresh token both
\* succeed.
C12_OneSuccessor ==
  \A p \in Procs, q \in Procs :
    (p # q /\ FinishedAuth(p, "refresh") /\ session[p].code = "OK"
       /\ FinishedAuth(q, "refresh") /\ session[q].code = "OK")
    => session[p].token # session[q].token

\* C13: a verify-otp that finds the record marked used answers OTP_INVALID
\* whatever the digits and changes nothing; the write-back of a successful
\* verify leaves the record marked used; a used record stays used for as
\* long as it is retained.
C13_UsedRecordRefuses ==
  [][ /\ \A p \in Procs, otp \in OTPs :
           (VerifyOTP(p, otp) /\ otpRecord # NoOtp /\ otpRecord.used)
           => /\ session'[p].pc = "done"
              /\ session'[p].code = "OTP_INVALID"
              /\ otpRecord' = otpRecord
              /\ liveSet' = liveSet
              /\ user' = user
      /\ \A p \in Procs : VerifySetex(p) => otpRecord'.used
      /\ (otpRecord.used /\ otpRecord' # NoOtp
            /\ otpRecord'.created_at = otpRecord.created_at)
         => otpRecord'.used ]_vars

\* C13 witness: after a successful verify an attempt with the matching
\* digits found the record used and was answered OTP_INVALID.
C13_Witness ==
  \E p \in Procs :
    /\ FinishedAuth(p, "verifyOTP")
    /\ session[p].code = "OTP_INVALID"
    /\ session[p].otpData.used
    /\ session[p].otp = session[p].otpData.otp
    /\ user.is_verified
    /\ otpRecord = session[p].otpData

\* C14: no two verify-otp requests succeed on the same OTP record.
C14_SingleUse ==
  \A p \in Procs, q \in Procs :
    (p # q /\ FinishedAuth(p, "verifyOTP") /\ session[p].code = "OK"
       /\ FinishedAuth(q, "verifyOTP") /\ session[q].code = "OK")
    => session[p].otpData.created_at # session[q].otpData.created_at

\* C15: a message that is back in the queue after its handler threw carries
\* in its envelope the number of failed attempts, and a message whose
\* handler has thrown more than 3 times is acknowledged.
C15_RetriesCountFailures ==
  \A m \in DOMAIN queue :
    /\ queue[m].state \in {"ready", "unacked"}
       => queue[m].content.retries = queue[m].failures
    /\ queue[m].failures > RetryLimit => queue[m].state = "acked"

\* a driver's call of kind op is answered in this step
Answered(drv, op) ==
  /\ driverCall'[drv] # driverCall[drv]
  /\ driverCall'[drv].pc = "done"
  /\ driverCall'[drv].op = op

C17_DeliveredOnlyByConfirm ==
  [][/\ \A oid \in 1..Len(orders) :
          (orders[oid].status # DELIVERED /\ orders'[oid].status = DELIVERED) =>
            \E drv \in RivalDrivers :
              /\ Answered(drv, "confirm")
              /\ driverCall'[drv].code = "OK"
              /\ deliveries[driverCall'[drv].delivery].order_id = oid
              /\ driverCall'[drv].otp = orders[oid].otp_for_delivery
     /\ \A d \in 1..Len(deliveries) :
          (deliveries[d].status # "delivered" /\ deliveries'[d].status = "delivered") =>
            \E drv \in RivalDrivers :
              /\ Answered(drv, "confirm")
              /\ driverCall'[drv].code = "OK"
              /\ driverCall'[drv].delivery = d]_vars

\* the drivers whose accept of delivery d was answered with code
AcceptAnswered(d, code) ==
  {drv \in RivalDrivers :
     /\ driverCall[drv].pc = "done"
     /\ driverCall[drv].op = "accept"
     /\ driverCall[drv].delivery = d
     /\ driverCall[drv].code = code}

C19_OtpOnlyToOwner ==
  \A p \in Procs :
    (/\ proc[p].pc = "done"
     /\ proc[p].op = "getOrder"
     /\ proc[p].result.otp # "none")
      => orders[proc[p].orderId].user_id = proc[p].userId

\* a confirm-delivery was answered OK
Committed ==
  \E drv \in RivalDrivers :
    /\ driverCall[drv].pc = "done"
    /\ driverCall[drv].op = "confirm"
    /\ driverCall[drv].code = "OK"

RECURSIVE TaxedSubtotals(_)
\* the sum over the lines of price * qty plus 18% of price * qty, in hundredths
TaxedSubtotals(lines) ==
  IF lines = <<>> THEN 0
  ELSE Head(lines).price * Head(lines).qty * (Hundredths + 18)
       + TaxedSubtotals(Tail(lines))

\* C21: the total of a created order is the sum over its lines of
\* price * qty plus a tax of 18% of price * qty
C21_TotalIsTaxedSubtotal ==
  cart.k = Len(cart.items) => cart.total = TaxedSubtotals(cart.items)

\* a cancelOrder of order oid has released the order's reservation
ReleasedByCancel(oid) ==
  \/ orders[oid].status = CANCELLED
  \/ \E p \in Procs :
       /\ proc[p].op = "cancelOrder"
       /\ proc[p].orderId = oid
       /\ proc[p].pc = "ca_save"

\* C22: a commit for an order whose reservation a cancelOrder has already
\* released changes no inventory row
C22_CommitAfterCancelIsNoOp ==
  [][\A drv \in RivalDrivers :
       (Answered(drv, "confirm") /\ driverCall'[drv].code = "OK") =>
         (ReleasedByCancel(deliveries[driverCall'[drv].delivery].order_id)
            => inventory' = inventory)]_vars

\* what the caller of login sees: the error body and whether tokens came
Observed(outcome) == [body |-> outcome.reply.body, issued |-> outcome.session.issued,
                      pc |-> outcome.session.pc]

\* C23: in every state a login for an unknown account and a login for the
\* existing account with a wrong password are answered alike, with
\* INVALID_CREDENTIALS, the same message and status and no token, and
\* neither changes the user, the OTP record or the refresh tokens
C23_AbsentLooksLikeWrongPassword ==
  /\ [](\A absent \in Accounts \ {RegisteredPhone}, password \in Passwords,
          wrong \in Passwords \ {user.password} :
          /\ Observed(LoginOutcome(absent, password))
               = Observed(LoginOutcome(RegisteredPhone, wrong))
          /\ LoginOutcome(absent, password).reply.body = invalidCredentials
          /\ LoginOutcome(absent, password).session.issued = 0)
  /\ [][\A p \in Procs, account \in Accounts, password \in Passwords :
          (LoginAs(p, account, password)
             /\ (~UserFound(account) \/ password # user.password))
          => /\ reply'[p].body = invalidCredentials
             /\ session'[p].pc = "done"
             /\ session'[p].issued = 0
             /\ UNCHANGED <<user, otpRecord, liveSet, nextJti>>]_vars

\* one login for the unknown account and one for the verified user with a
\* wrong password have both been refused with the same body
C23_Witness ==
  \E p \in Procs, q \in Procs :
    /\ user.is_verified
    /\ reply[p].account # RegisteredPhone
    /\ reply[q].account = RegisteredPhone
    /\ reply[q].password # user.password
    /\ reply[p].body = reply[q].body
    /\ reply[p].body.code = "INVALID_CREDENTIALS"
    /\ session[p].pc = "done" /\ session[p].issued = 0
    /\ session[q].pc = "done" /\ session[q].issued = 0

\* C24: in each lifetime of a (client ip, endpoint) key at most maxRequests
\* requests are let through, whatever the interleaving; a request counted
\* beyond maxRequests is answered RATE_LIMITED; the first request after the
\* key has expired is let through again
C24_AtMostMaxPerWindow ==
  /\ [](\A e \in DOMAIN rateKey, w \in Windows :
          rateKey[e].admitted[w] <= MaxRequestsOf(e))
  /\ [][\A p \in Procs :
          RateRespond(p) =>
            /\ limiter[p].count > MaxRequestsOf(limiter[p].endpoint)
                 => limiter'[p].code = "RATE_LIMITED"
            /\ limiter[p].count = 1 => limiter'[p].code = "OK"]_vars

\* OTP verification: three requests were let through in the first window,
\* a further one was refused, and after the key expired one was let through
C24_Witness ==
  /\ "otp" \in DOMAIN rateKey
  /\ rateKey["otp"].admitted[1] = MaxRequestsOf("otp")
  /\ rateKey["otp"].admitted[2] = 1
  /\ rateKey["otp"].window = 2
  /\ \E p \in Procs : limiter[p].code = "RATE_LIMITED" /\ limiter[p].window = 1

\* C25: once no create-pharmacist is between its two writes, every
\* pharmacist user owns a pharmacy: a call leaves both or neither
C25_PharmacistWithPharmacy ==
  \A a \in 1..Len(accounts) :
    (/\ accounts[a].role = "pharmacist"
     /\ \A p \in Procs : ~(adminCall[p].pc = "pm_pharmacy" /\ adminCall[p].user = a))
      => a \in pharmacies

\* C26: every create-driver for a phone nobody holds succeeds, and no two
\* drivers have the same generated email
C26_DistinctDriverIndex ==
  /\ \A p \in Procs :
       (/\ adminCall[p].pc = "done"
        /\ adminCall[p].op = "createDriver"
        /\ adminCall[p].code # "OK")
         => \E a \in 1..Len(accounts) : accounts[a].phone = adminCall[p].phone
  /\ \A a, b \in 1..Len(accounts) :
       (a # b /\ accounts[a].role = "driver" /\ accounts[b].role = "driver")
         => accounts[a].email # accounts[b].email

\* C27: when acquireLock or releaseLock raises an error, createOrder fails
\* and leaves no stock moved from quantity_available to reserved_qty: a
\* createOrder answered with the lock store's error has moved nothing
C27_LockStoreErrorLeavesStock ==
  \A p \in Procs :
    (/\ proc[p].pc = "done"
     /\ proc[p].op = "createOrder"
     /\ proc[p].result.code = internalError)
      => proc[p].moved = ZeroMoved

\* the request of worker p leaves the step at pc, its last write, for its answer
Answers(p, pc) == proc[p].pc = pc /\ proc'[p].pc = "done"

\* C28: while the bus rejects every publish, createOrder, cancelOrder,
\* processPaymentWebhook and the commit still answer success and what they
\* wrote stays written: the new order, the cancelled status, the delivery
\* and its link, and reserved_qty lowered for every line of the order
C28_PublishFailureIsSwallowed ==
  /\ [][\A p \in Procs :
          PublishRejects =>
            /\ (Answers(p, "co_create") /\ UniqueKeyIndex(orders, proc[p].idempotencyKey))
                 => /\ proc'[p].result.code = "OK"
                    /\ Len(orders') = Len(orders) + 1
                    /\ orders'[proc'[p].result.order_id].status = CREATED
            /\ Answers(p, "ca_save")
                 => /\ proc'[p].result.code = "OK"
                    /\ orders'[proc[p].orderId].status = CANCELLED
                    /\ inventory' = inventory
            /\ Answers(p, "wh_link")
                 => /\ proc'[p].result.code = "OK"
                    /\ orders'[proc[p].orderId].delivery_id = proc[p].delivery
                    /\ orders'[proc[p].orderId].payment_status = PAID
                    /\ deliveries' = deliveries]_vars
  /\ [][\A drv \in RivalDrivers :
          (/\ PublishRejects
           /\ Answered(drv, "confirm")
           /\ deliveries'[driverCall'[drv].delivery].status = "delivered")
            => LET order == orders[deliveries[driverCall'[drv].delivery].order_id]
               IN /\ driverCall'[drv].code = "OK"
                  /\ \A r \in Rows :
                       inventory'[r].reserved_qty =
                         inventory[r].reserved_qty
                           - LineQty(order.pharmacy_id, order.items, r)]_vars

\* with the bus unreachable from the start, a two-line order was created,
\* paid and committed, and another order was created and cancelled, every
\* one of them answered with success
C28_Witness ==
  /\ PublishRejects
  /\ Len(orders) = 2
  /\ \E a, b \in 1..Len(orders) :
       /\ orders[a].status = DELIVERED
       /\ Len(orders[a].items) = 2
       /\ orders[a].delivery_id # 0
       /\ orders[b].status = CANCELLED
  /\ Committed
  /\ proc[1].pc = "done"
  /\ proc[1].op = "cancelOrder"
  /\ proc[1].result.code = "OK"

\* C29: with the first holder's lock expired and two requests inside the
\* critical section of one row, quantity_available never goes below zero,
\* and the conditional update that matches no row changes no row and fails
\* the request with INSUFFICIENT_STOCK
C29_ConditionalUpdateHoldsWithoutLock ==
  /\ [](\A r \in Rows : inventory[r].quantity_available >= 0)
  /\ [][\A p \in Procs :
          (/\ proc[p].pc = "ri_update"
           /\ proc'[p] # proc[p]
           /\ inventory[proc[p].found].quantity_available
                < proc[p].items[proc[p].i].qty)
            => /\ inventory' = inventory
               /\ proc'[p].pc = "ri_release"
               /\ proc'[p].error = "INSUFFICIENT_STOCK"]_vars

\* a request found enough stock on the row, lost its lock, and its update
\* matched no row because the other request reserved from the row meanwhile
C29_Witness ==
  \E p, q \in Procs :
    /\ p # q
    /\ proc[p].pc = "ri_release"
    /\ proc[p].error = "INSUFFICIENT_STOCK"
    /\ proc[p].found # 0
    /\ proc[q].moved[proc[p].found] > 0
    /\ inventory[proc[p].found].quantity_available >= 0

\* the lock ids held by the reserveInventory calls that have not returned
HeldByCalls ==
  UNION {{proc[p].lockedInventory[k] : k \in 1..Len(proc[p].lockedInventory)} :
           p \in {q \in Procs : proc[q].pc \in {"ri_acquire", "ri_find",
                                                "ri_update", "ri_release"}}}

\* C30: every lock that exists was acquired by a reserveInventory call that
\* has not returned or thrown yet: no lock acquired by a finished call
\* remains held, on whichever path the call ended
C30_NoLockOutlivesItsCall == locks \subseteq HeldByCalls

\* C31: a release removes only a lock its request still holds: no release
\* deletes the key of a (pharmacy, medicine) pair while another request,
\* which acquired the key after the releasing request had lost it, is inside
\* its critical section
C31_ReleaseRemovesOwnLockOnly ==
  [][\A p \in Procs :
       (/\ proc[p].pc = "ri_release"
        /\ proc'[p] # proc[p]
        /\ Head(proc[p].lockedInventory) \in locks
        /\ ~(Head(proc[p].lockedInventory) \in locks'))
         => \A q \in Procs \ {p} : ~Inside(q, Head(proc[p].lockedInventory))]_vars

\* row r is a viable batch for the line: its pharmacy and medicine, not
\* expired, and enough available for the whole line
Viable(r, item) ==
  /\ RowAttr[r].pharmacy_id = item.pharmacy_id
  /\ RowAttr[r].medicine_id = item.medicine_id
  /\ RowAttr[r].expiry_date > Now
  /\ inventory[r].quantity_available >= item.qty

C33_ReleaseOnCapturedBatch ==
  /\ [][\A p \in Procs :
          (proc[p].pc = "ca_release" /\ proc'[p] # proc[p]) =>
            LET order == orders[proc[p].orderId]
                line == order.items[proc[p].i]
            IN \A r \in Rows :
                 IF /\ RowAttr[r].pharmacy_id = order.pharmacy_id
                    /\ RowAttr[r].medicine_id = line.medicine_id
                    /\ RowAttr[r].batch_no = line.batch_no
                 THEN /\ inventory'[r].quantity_available
                           = inventory[r].quantity_available + line.qty
                      /\ inventory'[r].reserved_qty = inventory[r].reserved_qty - line.qty
                 ELSE inventory'[r] = inventory[r]]_vars
  /\ [][\A p \in Procs :
          (proc[p].pc = "co_create" /\ Len(orders') = Len(orders) + 1) =>
            \A r \in Rows :
              proc[p].moved[r]
                = LineQty(orders'[Len(orders')].pharmacy_id, orders'[Len(orders')].items, r)]_vars

\* an order whose line of m1 captured the later batch b2, because b1 held too
\* little, was cancelled: b2 has its stock back and nothing is reserved
\* while b1 and the expired batch b0 hold what they held
C33_Witness ==
  /\ proc[1].pc = "done"
  /\ proc[1].op = "cancelOrder"
  /\ proc[1].result.code = "OK"
  /\ Len(orders) = 1
  /\ orders[1].status = CANCELLED
  /\ \E k \in 1..Len(orders[1].items) :
       orders[1].items[k].medicine_id = "m1" /\ orders[1].items[k].batch_no = "b2"
  /\ inventory[1].quantity_available = 1
  /\ inventory[4].quantity_available = 2
  /\ \A r \in Rows : inventory[r].reserved_qty = 0

\* C34: createOrder is a function of (customer, key): an order answered to
\* a customer, at once for a known key or after creating it, is an order of
\* that customer
C34_OrderOfTheCaller ==
  /\ [][\A p \in Procs, rq \in CreateRequests :
          (/\ CreateOrder(p, rq.userId, rq.idempotencyKey, rq.items)
           /\ proc'[p].pc = "done"
           /\ proc'[p].result.code = "OK")
            => orders[proc'[p].result.order_id].user_id = rq.userId]_vars
  /\ [][\A p \in Procs :
          (/\ proc[p].pc = "co_create"
           /\ proc'[p].pc = "done"
           /\ proc'[p].result.code = "OK")
            => orders'[proc'[p].result.order_id].user_id = proc[p].userId]_vars

\* C35: of two createOrder requests with the same idempotency key the one
\* that does not create the order leaves no stock moved from
\* quantity_available to reserved_qty, whether it was answered with the
\* existing order or refused by the unique index
C35_LoserReservesNothing ==
  \A p \in Procs :
    (/\ proc[p].pc = "done"
     /\ proc[p].op = "createOrder"
     /\ \/ proc[p].result.code = "DUPLICATE_KEY"
        \/ proc[p].result.code = "OK" /\ proc[p].orderId = 0)
      => proc[p].moved = ZeroMoved

RECURSIVE LiveQty(_, _)
\* the quantity the lines of the first n orders hold on row r, over the
\* orders that are neither cancelled nor delivered
LiveQty(n, r) ==
  IF n = 0 THEN 0
  ELSE (IF orders[n].status \in {CANCELLED, DELIVERED} THEN 0
        ELSE LineQty(orders[n].pharmacy_id, orders[n].items, r))
       + LiveQty(n - 1, r)

\* C36: whenever no request is in flight, reserved_qty of every row is the
\* sum of the quantities of the lines that captured its batch in the orders
\* that are neither cancelled nor delivered
C36_ReservedIsHeldByLiveOrders ==
  Quiescent => \A r \in Rows : inventory[r].reserved_qty = LiveQty(Len(orders), r)

\* line i of the request of worker p names the (pharmacy, medicine) pair of
\* one of its earlier lines
RepeatsEarlierLine(p) ==
  \E k \in 1..(proc[p].i - 1) :
    /\ proc[p].items[k].pharmacy_id = proc[p].items[proc[p].i].pharmacy_id
    /\ proc[p].items[k].medicine_id = proc[p].items[proc[p].i].medicine_id

\* C37: the locks of a reserveInventory call are held until its last line:
\* acquireLock for a line that repeats the (pharmacy, medicine) pair of an
\* earlier line of the same request is refused, the request goes to its
\* finally block with INVENTORY_LOCKED, and that is what it answers
C37_RepeatedLineIsLocked ==
  /\ [][\A p \in Procs :
          (/\ proc[p].pc = "ri_acquire"
           /\ proc'[p] # proc[p]
           /\ RepeatsEarlierLine(p))
            => /\ proc'[p].pc = "ri_release"
               /\ proc'[p].error = "INVENTORY_LOCKED"
               /\ proc'[p].lockedInventory = proc[p].lockedInventory
               /\ locks' = locks
               /\ inventory' = inventory]_vars
  /\ [][\A p \in Procs :
          (/\ proc[p].pc = "ri_release"
           /\ proc'[p].pc = "done")
            => proc'[p].result.code = proc[p].error]_vars

\* the only request that ever arrived named (ph1, m1) on both lines: its
\* first line was reserved and it was answered INVENTORY_LOCKED
C37_Witness ==
  /\ opsLeft = MaxOps - 1
  /\ proc[1].pc = "done"
  /\ proc[1].op = "createOrder"
  /\ proc[1].result.code = "INVENTORY_LOCKED"
  /\ proc[1].moved[1] = 1
  /\ \A q \in Procs \ {1} : proc[q].pc = "idle"
  /\ locks = {}

\* C38: reserveInventory never waits for a lock: every createOrder request
\* that was started is answered, with success or an error, also when two
\* requests lock the same medicines in opposite orders
C38_EveryRequestTerminates ==
  \A p \in Procs :
    (proc[p].pc \in {"ri_acquire", "ri_find", "ri_update", "ri_release", "co_create"})
      ~> (proc[p].pc = "done")

\* two requests each hold the lock the other is about to ask for
C38_Witness ==
  \E p, q \in Procs :
    /\ p # q
    /\ proc[p].pc = "ri_acquire"
    /\ proc[q].pc = "ri_acquire"
    /\ proc[p].i = 2
    /\ proc[q].i = 2
    /\ Inside(q, LockId(proc[p].items[2]))
    /\ Inside(p, LockId(proc[q].items[2]))
    /\ LockId(proc[p].items[2]) \in locks
    /\ LockId(proc[q].items[2]) \in locks

\* the step is a step of the request op that worker p is serving
StepOf(p, op) == proc'[p] # proc[p] /\ proc'[p].op = op

\* C39: no step of processPaymentWebhook changes an inventory row, the
\* status or the items of any order, or any field of another order than its
\* own, and what it adds to the deliveries is its own delivery; no step of
\* cancelOrder changes the payment_status or the delivery_id of any order,
\* or the deliveries
C39_WebhookAndCancelFrames ==
  /\ [][\A p \in Procs :
          StepOf(p, "processPaymentWebhook") =>
            /\ inventory' = inventory
            /\ locks' = locks
            /\ Len(orders') = Len(orders)
            /\ \A o \in 1..Len(orders) :
                 /\ orders'[o].status = orders[o].status
                 /\ orders'[o].items = orders[o].items
                 /\ orders'[o].user_id = orders[o].user_id
                 /\ orders'[o].otp_for_delivery = orders[o].otp_for_delivery
                 /\ o # proc'[p].orderId => orders'[o] = orders[o]
            /\ \A d \in 1..Len(deliveries) : deliveries'[d] = deliveries[d]
            /\ \A d \in (Len(deliveries) + 1)..Len(deliveries') :
                 deliveries'[d].order_id = proc'[p].orderId]_vars
  /\ [][\A p \in Procs :
          StepOf(p, "cancelOrder") =>
            /\ deliveries' = deliveries
            /\ Len(orders') = Len(orders)
            /\ \A o \in 1..Len(orders) :
                 /\ orders'[o].payment_status = orders[o].payment_status
                 /\ orders'[o].delivery_id = orders[o].delivery_id
                 /\ orders'[o].items = orders[o].items
                 /\ o # proc'[p].orderId => orders'[o] = orders[o]]_vars

\* a cancelled order was reported paid: the webhook answered with its
\* payment_status paid and its delivery linked, and the order is still
\* cancelled with nothing reserved for it
C39_Witness ==
  \E p \in Procs :
    /\ proc[p].pc = "done"
    /\ proc[p].op = "processPaymentWebhook"
    /\ proc[p].result.code = "OK"
    /\ orders[proc[p].orderId].status = CANCELLED
    /\ orders[proc[p].orderId].payment_status = PAID
    /\ orders[proc[p].orderId].delivery_id # 0
    /\ \A r \in Rows : inventory[r].reserved_qty = 0

\* the request of worker p was answered code in this step and nothing of
\* the stores changed; it never reached its release or its publish
RefusedAtOnce(p, code) ==
  /\ proc'[p].pc = "done"
  /\ proc'[p].result.code = code
  /\ orders' = orders
  /\ inventory' = inventory
  /\ deliveries' = deliveries
  /\ locks' = locks
  /\ queue' = queue

\* C40: cancelOrder for an order that does not exist is answered
\* ORDER_NOT_FOUND and cancelOrder by a user who is not the order's customer
\* is answered FORBIDDEN; both are answered before the release and the
\* publish of order.cancelled, with every order and inventory row unchanged
C40_RefusedCancelChangesNothing ==
  [][\A p \in Procs, oid \in OrderIds, u \in Users :
       CancelOrder(p, oid, u) =>
         /\ oid > Len(orders) => RefusedAtOnce(p, "ORDER_NOT_FOUND")
         /\ (oid <= Len(orders) /\ orders[oid].user_id # u)
              => RefusedAtOnce(p, "FORBIDDEN")]_vars

\* one cancelOrder named an order that did not exist and another came from
\* a user who is not the customer of order 1, which is still created with
\* its stock reserved
C40_Witness ==
  /\ \E p \in Procs :
       /\ proc[p].pc = "done"
       /\ proc[p].op = "cancelOrder"
       /\ proc[p].result.code = "FORBIDDEN"
       /\ proc[p].orderId = 1
  /\ \E q \in Procs :
       /\ proc[q].pc = "done"
       /\ proc[q].op = "cancelOrder"
       /\ proc[q].result.code = "ORDER_NOT_FOUND"
  /\ Len(orders) = 1
  /\ orders[1].status = CREATED
  /\ \A r \in Rows :
       inventory[r].reserved_qty = LineQty(orders[1].pharmacy_id, orders[1].items, r)

====
